---- MODULE Spec2Model ----
(***************************************************************************)
(* A model of the profile-data core of the profiler (profile-data.js):     *)
(* the call node builder getCallNodeInfo, the call node path resolver,     *)
(* the timing aggregation getTimingsForCallNodeIndex and the tree          *)
(* inverter invertCallstack.                                               *)
(*                                                                         *)
(* Tables are columnar and 0-based, as in the source: a column is a        *)
(* function over 0..length-1.  null (and undefined) are the integer Null,  *)
(* kept distinct from -1, the prefix of a root call node.                  *)
(***************************************************************************)
EXTENDS Integers, Sequences, FiniteSets, TLC

\* ------------------------------------------------------------------ bounds
\* Largest stack table the specifications enumerate.
MaxStacks == 3
\* Longest call node path the path resolver is given.
MaxPathLen == 3
\* Largest samples table the specifications enumerate.
MaxSamples == 3
\* How many times in a row a thread is inverted.
MaxInversions == 2
\* The search strings of one call of filterThreadToSearchStrings.
MaxSearchStrings == 2
\* Latest time of a sample, an allocation or a counter sample.
MaxTime == 2
\* Largest stack table findBestAncestorCallNode is given.
MaxTreeStacks == 4
\* Largest native allocations table of the memory filters.
MaxEvents == 4
\* Largest list of threads defaultThreadOrder is given.
MaxThreads == 4
\* Most lines in the output of one git log of the l10n sync script.
MaxChangedFiles == 2

\* ------------------------------------------------------- values and columns
\* null / undefined: an absent stack, call node or map entry.
Null == -2

\* A nullable table or column: Absent for null or undefined, Present(x) otherwise.
Absent == <<>>
Present(x) == <<x>>
ValueOf(option) == option[1]

\* An empty column, and a column built from the list of its values.
EmptyCol == [i \in {} |-> 0]
Col(seq) == [i \in 0 .. Len(seq) - 1 |-> seq[i + 1]]

\* array[index] = value on a JS array that grows on write.
SetAt(col, index, value) == [i \in DOMAIN col \cup {index} |-> IF i = index THEN value ELSE col[i]]

\* ------------------------------------------------------------------ inputs
\* frameTable.func: frames 0 and 2 are frames of the same function 1, so that
\* stacks of distinct frames can collapse into one call node.
\* Function 1 is a JS function: frame 0 runs it in the interpreter (a null
\* implementation), frame 2 in ion.  Function 0 is native.
stringTable == Col(<<"ion", "Ab", "c", "d", "Ze">>)
frameTable == [length |-> 3, func |-> Col(<<1, 0, 1>>),
               implementation |-> Col(<<Null, Null, 0>>),
               innerWindowID |-> Col(<<1, 0, 2>>)]
\* Function 0 is "Ab", without file name and without resource; function 1 is
\* "c" of file "d" in the resource "Ze".
funcTable == [length |-> 2, isJS |-> Col(<<FALSE, TRUE>>),
              relevantForJS |-> Col(<<FALSE, FALSE>>),
              name |-> Col(<<1, 2>>), fileName |-> Col(<<Null, 3>>),
              resource |-> Col(<<-1, 0>>)]
resourceTable == [length |-> 1, name |-> Col(<<4>>)]
Frames == 0 .. frameTable.length - 1
Funcs == 0 .. funcTable.length - 1

\* The category list has three categories.  The (category, subcategory) pairs
\* a stack may carry: two subcategories of category 0 and one of category 1.
categories == Col(<<[name |-> "Other", subcategories |-> 3],
                    [name |-> "JavaScript", subcategories |-> 3],
                    [name |-> "Layout", subcategories |-> 3]>>)
Categories == DOMAIN categories
CategoryPairs == {<<0, 1>>, <<0, 2>>, <<1, 1>>}

\* The prefix columns of stack tables of n stacks: a stack's prefix is null
\* or an earlier stack (the assertion of the source at lines 127-128).
PrefixCols(n) ==
  {p \in [0 .. n - 1 -> {Null} \cup 0 .. n - 2] : \A i \in 0 .. n - 1 : p[i] = Null \/ p[i] < i}

\* Stack tables of n stacks whose (category, subcategory) pairs are in pairs.
StackTables(n, pairs) ==
  {[length |-> n, prefix |-> p, frame |-> f,
    category |-> [i \in 0 .. n - 1 |-> cs[i][1]],
    subcategory |-> [i \in 0 .. n - 1 |-> cs[i][2]]] :
     p \in PrefixCols(n), f \in [0 .. n - 1 -> Frames], cs \in [0 .. n - 1 -> pairs]}

\* ------------------------------------------------------------------- state
VARIABLES
  pc,                \* which operation runs, and whether it is done
  stackTable,        \* thread.stackTable
  defaultCategory,   \* the defaultCategory argument
  stackIndex,        \* getCallNodeInfo: the loop counter
  callNodeTable,     \* getCallNodeInfo: prefix, func, category, subcategory, depth, length
  prefixCallNodeAndFuncToCallNodeMap,  \* getCallNodeInfo: composite key -> call node
  stackIndexToCallNodeIndex,           \* getCallNodeInfo: the Uint32Array result
  cache,             \* getCallNodeIndicesFromPaths: path hash -> call node index
  callNodePath,      \* the path last resolved
  roundTripNode,     \* the call node whose path was resolved, Null for any other path
  resolved,          \* the index returned for callNodePath
  samples,           \* thread.samples: length, stack, weight (Absent without the column)
  needleNodeIndex,   \* getTimingsForCallNodeIndex: the call node asked for, or Null
  isInvertedTree,    \* getTimingsForCallNodeIndex: the isInvertedTree argument
  timings,           \* getTimingsForCallNodeIndex: { forPath, forFunc, rootTime }
  inversions,        \* the threads returned by successive calls of invertCallstack
  jsAllocations,     \* thread.jsAllocations, Absent without the table
  nativeAllocations, \* thread.nativeAllocations, Absent without the table
  args,              \* the arguments, other than the thread, of the calls made
  returned,          \* the values the calls returned
  SKIP_PROMPTS,      \* l10n-sync: whether the script was run with -y
  tryCount,          \* tryToSync: the attempts made
  error,             \* tryToSync: the error of the last attempt, or Null
  lastIndex,         \* tryToSync: the lastIndex of the two global regular expressions
  execLog,           \* the commands logAndExec ran, each with the attempt it ran in
  caught             \* the error each finished attempt ended with, Null after a success

inputVars == <<stackTable, defaultCategory, samples, jsAllocations, nativeAllocations>>
builderVars == <<stackIndex, callNodeTable, prefixCallNodeAndFuncToCallNodeMap, stackIndexToCallNodeIndex>>
pathVars == <<cache, callNodePath, roundTripNode, resolved>>
timingVars == <<needleNodeIndex, isInvertedTree, timings>>
invertVars == <<inversions>>
callVars == <<args, returned>>
syncVars == <<SKIP_PROMPTS, tryCount, error, lastIndex, execLog, caught>>
vars == <<pc, inputVars, builderVars, pathVars, timingVars, invertVars, callVars, syncVars>>

\* A timing nothing was added to, and the result before the loop over the samples.
EmptyTiming == [value |-> 0, breakdownByImplementation |-> Absent, breakdownByCategory |-> Absent]
EmptyTimings ==
  [forPath |-> [selfTime |-> EmptyTiming, totalTime |-> EmptyTiming],
   forFunc |-> [selfTime |-> EmptyTiming, totalTime |-> EmptyTiming],
   rootTime |-> 0]

\* A samples table without samples.
NoSamples == [length |-> 0, stack |-> EmptyCol, weight |-> Absent]

\* The state of the timing aggregation when it does not run.
TimingsIdle ==
  /\ needleNodeIndex = Null
  /\ isInvertedTree = FALSE
  /\ timings = EmptyTimings

\* No call of invertCallstack has returned.
InvertIdle == inversions = <<>>

\* A thread without allocation tables.
NoAllocations == jsAllocations = Absent /\ nativeAllocations = Absent

\* No call was made.
CallsIdle == args = <<>> /\ returned = <<>>

\* The state of the l10n sync script when it does not run.
SyncIdle ==
  /\ SKIP_PROMPTS = FALSE
  /\ tryCount = 0
  /\ error = <<>>
  /\ lastIndex = [vendoredLocalesPath |-> 0, nonVendoredLocalesPath |-> 0]
  /\ execLog = <<>>
  /\ caught = <<>>

\* The state of the path resolver when no path is being resolved.
PathsIdle ==
  /\ cache = EmptyCol
  /\ callNodePath = <<>>
  /\ roundTripNode = Null
  /\ resolved = Null

\* ------------------------------------------------------- getCallNodeInfo
\* The state of getCallNodeInfo before its loop: empty columns, an empty map
\* and a zero-filled Uint32Array of stackTable.length entries.
NewCallNodeInfo(st) ==
  [callNodeTable |-> [prefix |-> EmptyCol, func |-> EmptyCol, category |-> EmptyCol,
                      subcategory |-> EmptyCol, depth |-> EmptyCol, length |-> 0],
   map |-> EmptyCol,
   stackIndexToCallNodeIndex |-> [i \in 0 .. st.length - 1 |-> 0]]

\* addCallNode with the depth of a child equal to that of its parent.
addCallNodeSameDepth(t, prefixIndex, funcIndex, categoryIndex, subcategoryIndex) ==
  LET index == t.length IN
  [prefix |-> SetAt(t.prefix, index, prefixIndex),
   func |-> SetAt(t.func, index, funcIndex),
   category |-> SetAt(t.category, index, categoryIndex),
   subcategory |-> SetAt(t.subcategory, index, subcategoryIndex),
   depth |-> SetAt(t.depth, index, IF prefixIndex = -1 THEN 0 ELSE t.depth[prefixIndex]),
   length |-> t.length + 1]

addCallNode(t, prefixIndex, funcIndex, categoryIndex, subcategoryIndex) ==
  LET index == t.length IN
  [prefix |-> SetAt(t.prefix, index, prefixIndex),
   func |-> SetAt(t.func, index, funcIndex),
   category |-> SetAt(t.category, index, categoryIndex),
   subcategory |-> SetAt(t.subcategory, index, subcategoryIndex),
   depth |-> SetAt(t.depth, index, IF prefixIndex = -1 THEN 0 ELSE t.depth[prefixIndex] + 1),
   length |-> t.length + 1]

\* prefixCallNode + funcIndex: a key under which distinct (prefix, func) pairs collide.
prefixCallNodeAndFuncSum(prefixCallNode, funcIndex) ==
  prefixCallNode + funcIndex

\* prefixCallNode * funcCount + funcIndex, the key of the map.
prefixCallNodeAndFuncIndex(prefixCallNode, funcIndex) ==
  prefixCallNode * funcTable.length + funcIndex

\* A category conflict that resets the category and keeps the subcategory.
mergeCategoryKeepSubcategory(t, callNodeIndex, categoryIndex, subcategoryIndex, defCategory) ==
  IF t.category[callNodeIndex] # categoryIndex
    THEN [t EXCEPT !.category[callNodeIndex] = defCategory]
  ELSE IF t.subcategory[callNodeIndex] # subcategoryIndex
    THEN [t EXCEPT !.subcategory[callNodeIndex] = 0]
  ELSE t

\* The else-if branches of the loop body: the call node exists already, and
\* the stack's category or subcategory may conflict with the node's.
mergeCategory(t, callNodeIndex, categoryIndex, subcategoryIndex, defCategory) ==
  IF t.category[callNodeIndex] # categoryIndex
    THEN [t EXCEPT !.category[callNodeIndex] = defCategory,
                   !.subcategory[callNodeIndex] = 0]
  ELSE IF t.subcategory[callNodeIndex] # subcategoryIndex
    THEN [t EXCEPT !.subcategory[callNodeIndex] = 0]
  ELSE t

\* One iteration of the loop over the stacks, on the builder state b.
CallNodeLoopBody(b, st, defCategory, s) ==
  LET prefixStack == st.prefix[s]
      prefixCallNode == IF prefixStack = Null THEN -1 ELSE b.stackIndexToCallNodeIndex[prefixStack]
      frameIndex == st.frame[s]
      categoryIndex == st.category[s]
      subcategoryIndex == st.subcategory[s]
      funcIndex == frameTable.func[frameIndex]
      key == prefixCallNodeAndFuncIndex(prefixCallNode, funcIndex)
      t == b.callNodeTable
      found == key \in DOMAIN b.map
      callNodeIndex == IF found THEN b.map[key] ELSE t.length
      newTable ==
        IF ~found
          THEN addCallNode(t, prefixCallNode, funcIndex, categoryIndex, subcategoryIndex)
          ELSE mergeCategory(t, callNodeIndex, categoryIndex, subcategoryIndex, defCategory)
  IN [callNodeTable |-> newTable,
      map |-> IF found THEN b.map ELSE SetAt(b.map, key, callNodeIndex),
      stackIndexToCallNodeIndex |-> [b.stackIndexToCallNodeIndex EXCEPT ![s] = callNodeIndex]]

\* The loop from stack s on: the whole of getCallNodeInfo is
\* CallNodeLoop(NewCallNodeInfo(st), st, defCategory, 0).
RECURSIVE CallNodeLoop(_, _, _, _)
CallNodeLoop(b, st, defCategory, s) ==
  IF s < st.length
    THEN CallNodeLoop(CallNodeLoopBody(b, st, defCategory, s), st, defCategory, s + 1)
    ELSE b

getCallNodeInfo(st, defCategory) ==
  LET b == CallNodeLoop(NewCallNodeInfo(st), st, defCategory, 0)
  IN [callNodeTable |-> b.callNodeTable, stackIndexToCallNodeIndex |-> b.stackIndexToCallNodeIndex]

\* --------------------------------------------- specification: the builder
\* The builder at its entry, before the loop over the stacks.
BuilderIdle ==
  /\ stackIndex = 0
  /\ callNodeTable = NewCallNodeInfo(stackTable).callNodeTable
  /\ prefixCallNodeAndFuncToCallNodeMap = NewCallNodeInfo(stackTable).map
  /\ stackIndexToCallNodeIndex = NewCallNodeInfo(stackTable).stackIndexToCallNodeIndex

\* The builder ran to its end on stackTable.
BuilderDone ==
  LET b == CallNodeLoop(NewCallNodeInfo(stackTable), stackTable, defaultCategory, 0) IN
  /\ stackIndex = stackTable.length
  /\ callNodeTable = b.callNodeTable
  /\ prefixCallNodeAndFuncToCallNodeMap = b.map
  /\ stackIndexToCallNodeIndex = b.stackIndexToCallNodeIndex

InitBuilder ==
  /\ SyncIdle
  /\ pc = "getCallNodeInfo"
  /\ \E n \in 0 .. MaxStacks : stackTable \in StackTables(n, CategoryPairs)
  /\ defaultCategory \in {0, 2}
  /\ BuilderIdle
  /\ samples = NoSamples
  /\ PathsIdle
  /\ TimingsIdle
  /\ InvertIdle
  /\ NoAllocations
  /\ CallsIdle

\* for (stackIndex = 0; stackIndex < stackTable.length; stackIndex++) { ... }
GetCallNodeInfoStep ==
  /\ pc = "getCallNodeInfo"
  /\ stackIndex < stackTable.length
  /\ LET b == CallNodeLoopBody(
                [callNodeTable |-> callNodeTable, map |-> prefixCallNodeAndFuncToCallNodeMap,
                 stackIndexToCallNodeIndex |-> stackIndexToCallNodeIndex],
                stackTable, defaultCategory, stackIndex)
     IN /\ callNodeTable' = b.callNodeTable
        /\ prefixCallNodeAndFuncToCallNodeMap' = b.map
        /\ stackIndexToCallNodeIndex' = b.stackIndexToCallNodeIndex
  /\ stackIndex' = stackIndex + 1
  /\ UNCHANGED <<pc, inputVars, syncVars, pathVars, timingVars, invertVars, callVars>>

\* The loop is over: return { callNodeTable, stackIndexToCallNodeIndex }.
GetCallNodeInfoReturn ==
  /\ pc = "getCallNodeInfo"
  /\ stackIndex >= stackTable.length
  /\ pc' = "done"
  /\ UNCHANGED <<inputVars, syncVars, builderVars, pathVars, timingVars, invertVars, callVars>>

NextBuilder == GetCallNodeInfoStep \/ GetCallNodeInfoReturn

SpecBuilder == InitBuilder /\ [][NextBuilder]_vars

\* ------------------------------------- CallNodePath and CallNodeIndex
\* hashPath of utils/path: the elements of the path joined with '-'.
RECURSIVE hashPath(_)
hashPath(path) ==
  IF path = <<>> THEN ""
  ELSE IF Len(path) = 1 THEN ToString(path[1])
  ELSE hashPath(SubSeq(path, 1, Len(path) - 1)) \o "-" \o ToString(path[Len(path)])

\* callNodePath[i], 0-based; undefined beyond the ends of the array.
PathAt(path, i) == IF i \in 0 .. Len(path) - 1 THEN path[i + 1] ELSE Null

\* The scan for a child that starts one entry too late, at parent + 2.
getCallNodeIndexFromParentAndFuncSkippingOne(parent, func, t) ==
  LET found == {c \in parent + 2 .. t.length - 1 : t.prefix[c] = parent /\ t.func[c] = func}
  IN IF found = {} THEN Null ELSE CHOOSE c \in found : \A d \in found : c <= d

\* _getCallNodeIndexFromParentAndFunc: the first call node after parent that
\* has parent as prefix and func as function, or null.
getCallNodeIndexFromParentAndFunc(parent, func, t) ==
  LET found == {c \in parent + 1 .. t.length - 1 : t.prefix[c] = parent /\ t.func[c] = func}
  IN IF found = {} THEN Null ELSE CHOOSE c \in found : \A d \in found : c <= d

\* Step 1 of _getCallNodeIndexFromPathWithCache, while (--i > 0): walk from the
\* closest parent towards the root until a cached parent is found, pushing the
\* hashes of the parents that are not cached.
RECURSIVE findCachedParent(_, _, _, _)
findCachedParent(path, c, i, sliceHashes) ==
  LET j == i - 1
      hash == hashPath(SubSeq(path, 1, j))
  IN IF j > 0
       THEN IF hash \in DOMAIN c
              THEN [i |-> j, index |-> c[hash], sliceHashes |-> sliceHashes]
              ELSE findCachedParent(path, c, j, Append(sliceHashes, hash))
       ELSE [i |-> j, index |-> Null, sliceHashes |-> sliceHashes]

\* sliceHashes.pop(): the last hash, undefined when there is none.
PoppedHash(sliceHashes) ==
  IF sliceHashes = <<>> THEN "undefined" ELSE sliceHashes[Len(sliceHashes)]

\* Step 2 that writes each index under the hash of the full path.
RECURSIVE resolveDownCachingFullPath(_, _, _, _, _, _)
resolveDownCachingFullPath(path, t, c, i, index, sliceHashes) ==
  IF i < Len(path)
    THEN LET nextNodeIndex == getCallNodeIndexFromParentAndFunc(index, PathAt(path, i), t)
         IN IF nextNodeIndex = Null
              THEN [result |-> Null, cache |-> c]
              ELSE resolveDownCachingFullPath(path, t, SetAt(c, hashPath(path), nextNodeIndex),
                                              i + 1, nextNodeIndex, sliceHashes)
    ELSE [result |-> IF index < 0 THEN Null ELSE index, cache |-> c]

\* Step 2, while (i < callNodePath.length): resolve downwards from index,
\* writing each resolved parent into the cache under the hash popped.
RECURSIVE resolveDown(_, _, _, _, _, _)
resolveDown(path, t, c, i, index, sliceHashes) ==
  IF i < Len(path)
    THEN LET nextNodeIndex == getCallNodeIndexFromParentAndFunc(index, PathAt(path, i), t)
         IN IF nextNodeIndex = Null
              THEN [result |-> Null, cache |-> c]
              ELSE resolveDown(path, t, SetAt(c, PoppedHash(sliceHashes), nextNodeIndex),
                               i + 1, nextNodeIndex,
                               SubSeq(sliceHashes, 1, Len(sliceHashes) - 1))
    ELSE [result |-> IF index < 0 THEN Null ELSE index, cache |-> c]

\* _getCallNodeIndexFromPathWithCache: the index of the path and the cache it leaves.
getCallNodeIndexFromPathWithCache(path, t, c) ==
  LET hashFullPath == hashPath(path) IN
  IF hashFullPath \in DOMAIN c
    THEN [result |-> c[hashFullPath], cache |-> c]
    ELSE LET up == findCachedParent(path, c, Len(path), <<hashFullPath>>)
         IN resolveDown(path, t, c, up.i, IF up.index = Null THEN -1 ELSE up.index,
                        up.sliceHashes)

\* getCallNodeIndexFromPath: getCallNodeIndicesFromPaths on the one path, with
\* a cache of its own.
getCallNodeIndexFromPath(path, t) ==
  getCallNodeIndexFromPathWithCache(path, t, EmptyCol).result

\* Reverse of a list, as Array.prototype.reverse.
Reverse(seq) == [i \in 1 .. Len(seq) |-> seq[Len(seq) + 1 - i]]

\* The loop of getCallNodePathFromIndex: the functions from fs up to the root.
RECURSIVE pushFuncsToRoot(_, _, _)
pushFuncsToRoot(fs, t, callNodePathSoFar) ==
  IF fs # -1
    THEN pushFuncsToRoot(t.prefix[fs], t, Append(callNodePathSoFar, t.func[fs]))
    ELSE callNodePathSoFar

getCallNodePathFromIndex(n, t) ==
  IF n = Null \/ n = -1 THEN <<>> ELSE Reverse(pushFuncsToRoot(n, t, <<>>))

\* ---------------------------------------- specification: the path resolver
\* The call node paths handed to the resolver.
CallNodePaths == UNION {[1 .. n -> Funcs] : n \in 0 .. MaxPathLen}

\* A call node table built by getCallNodeInfo, and an empty cache.  The
\* resolver reads the call node table only, which holds functions and no
\* frames: the stacks take one frame per function (frames 0 and 1).
InitPaths ==
  /\ SyncIdle
  /\ pc = "getCallNodeIndicesFromPaths"
  /\ \E n \in 0 .. MaxStacks :
       stackTable \in {st \in StackTables(n, {<<0, 1>>}) :
                         \A i \in 0 .. n - 1 : st.frame[i] \in Funcs}
  /\ defaultCategory = 0
  /\ samples = NoSamples
  /\ BuilderDone
  /\ PathsIdle
  /\ TimingsIdle
  /\ InvertIdle
  /\ NoAllocations
  /\ CallsIdle

\* callNodePaths.map(path => _getCallNodeIndexFromPathWithCache(path, callNodeTable, cache)):
\* the next path of the list, any path, is resolved against the shared cache.
ResolveNextPath ==
  /\ pc = "getCallNodeIndicesFromPaths"
  /\ \E path \in CallNodePaths :
       LET r == getCallNodeIndexFromPathWithCache(path, callNodeTable, cache) IN
       /\ callNodePath' = path
       /\ roundTripNode' = Null
       /\ resolved' = r.result
       /\ cache' = r.cache
  /\ UNCHANGED <<pc, inputVars, syncVars, builderVars, timingVars, invertVars, callVars>>

\* getCallNodeIndexFromPath(getCallNodePathFromIndex(n, callNodeTable), callNodeTable)
\* for a call node n of the table.
RoundTripCallNode ==
  /\ pc = "getCallNodeIndicesFromPaths"
  /\ \E n \in 0 .. callNodeTable.length - 1 :
       LET path == getCallNodePathFromIndex(n, callNodeTable) IN
       /\ callNodePath' = path
       /\ roundTripNode' = n
       /\ resolved' = getCallNodeIndexFromPath(path, callNodeTable)
  /\ UNCHANGED <<pc, inputVars, syncVars, builderVars, cache, timingVars, invertVars, callVars>>

NextPaths == ResolveNextPath \/ RoundTripCallNode

SpecPaths == InitPaths /\ [][NextPaths]_vars

\* ------------------------------------------- getTimingsForCallNodeIndex
\* categories.findIndex(({ name }) => name === 'JavaScript'), -1 if there is none.
javascriptCategoryIndex ==
  LET found == {c \in DOMAIN categories : categories[c].name = "JavaScript"}
  IN IF found = {} THEN -1 ELSE CHOOSE c \in found : \A d \in found : c <= d

\* Math.abs
Abs(x) == IF x < 0 THEN -x ELSE x

getImplementationForJsStack(unfilteredFrameIndex) ==
  LET jsImplementationStrIndex == frameTable.implementation[unfilteredFrameIndex] IN
  IF jsImplementationStrIndex = Null THEN "interpreter"
  ELSE IF stringTable[jsImplementationStrIndex] \in {"baseline", "blinterp", "ion"}
    THEN stringTable[jsImplementationStrIndex]
  ELSE "unknown"

\* The loop of getImplementationForNativeStack: the implementation of the
\* nearest JS frame from currentStackIndex up, 'native' if there is none.
RECURSIVE nearestJsImplementation(_, _)
nearestJsImplementation(st, currentStackIndex) ==
  IF currentStackIndex = Null THEN "native"
  ELSE IF funcTable.isJS[frameTable.func[st.frame[currentStackIndex]]]
    THEN getImplementationForJsStack(st.frame[currentStackIndex])
  ELSE nearestJsImplementation(st, st.prefix[currentStackIndex])

getImplementationForNativeStack(st, unfilteredStackIndex) ==
  IF st.category[unfilteredStackIndex] # javascriptCategoryIndex
    THEN "native"
    ELSE nearestJsImplementation(st, unfilteredStackIndex)

\* getImplementationForStack.  The unfiltered thread is the thread itself and
\* sampleIndexOffset is 0.
getImplementationForStack(st, smp, thisSampleIndex) ==
  LET stack == smp.stack[thisSampleIndex] IN
  IF stack = Null THEN "native"
  ELSE IF funcTable.isJS[frameTable.func[st.frame[stack]]]
    THEN getImplementationForJsStack(st.frame[stack])
  ELSE getImplementationForNativeStack(st, stack)

\* accumulateDataToTimings that sets the entry of the implementation to the
\* duration (= for +=).
accumulateDataToTimingsOverwriting(timing, st, smp, sampleIndex, duration) ==
  LET implementation == getImplementationForStack(st, smp, sampleIndex)
      byImplementation ==
        IF timing.breakdownByImplementation = Absent
          THEN EmptyCol ELSE ValueOf(timing.breakdownByImplementation)
  IN [timing EXCEPT !.value = @ + duration,
                    !.breakdownByImplementation =
                       Present(SetAt(byImplementation, implementation, duration))]

\* accumulateDataToTimings: the timing after duration was added for the sample.
accumulateDataToTimings(timing, st, smp, sampleIndex, duration) ==
  LET implementation == getImplementationForStack(st, smp, sampleIndex)
      byImplementation ==
        IF timing.breakdownByImplementation = Absent
          THEN EmptyCol ELSE ValueOf(timing.breakdownByImplementation)
      oldForImplementation ==
        IF implementation \in DOMAIN byImplementation
          THEN byImplementation[implementation] ELSE 0
      unfilteredStackIndex == smp.stack[sampleIndex]
      byCategory ==
        IF timing.breakdownByCategory = Absent
          THEN [c \in DOMAIN categories |->
                  [entireCategoryValue |-> 0,
                   subcategoryBreakdown |-> [k \in 0 .. categories[c].subcategories - 1 |-> 0]]]
          ELSE ValueOf(timing.breakdownByCategory)
      categoryIndex == st.category[unfilteredStackIndex]
      subcategoryIndex == st.subcategory[unfilteredStackIndex]
  IN [value |-> timing.value + duration,
      breakdownByImplementation |->
        Present(SetAt(byImplementation, implementation, oldForImplementation + duration)),
      breakdownByCategory |->
        IF unfilteredStackIndex = Null THEN timing.breakdownByCategory
        ELSE Present([byCategory EXCEPT
                       ![categoryIndex].entireCategoryValue = @ + duration,
                       ![categoryIndex].subcategoryBreakdown[subcategoryIndex] = @ + duration])]

\* samples.weight ? samples.weight[sampleIndex] : 1
sampleWeight(smp, sampleIndex) ==
  IF smp.weight # Absent THEN ValueOf(smp.weight)[sampleIndex] ELSE 1

\* rootTime += weight, without Math.abs.
addSignedToRootTime(rootTime, weight) == rootTime + weight

\* rootTime += Math.abs(weight)
addToRootTime(rootTime, weight) == rootTime + Abs(weight)

\* The self time of a non-inverted tree with the two conditions exchanged.
leafSelfTimeExchanged(acc, ctx, sampleIndex, weight, thisNodeIndex, thisFunc) ==
  LET a1 == IF thisFunc = ctx.needleFuncIndex
              THEN [acc EXCEPT !.forPath.selfTime =
                      accumulateDataToTimings(@, ctx.stackTable, ctx.samples, sampleIndex, weight)]
              ELSE acc
  IN IF thisNodeIndex = ctx.needleNodeIndex
       THEN [a1 EXCEPT !.forFunc.selfTime =
               accumulateDataToTimings(@, ctx.stackTable, ctx.samples, sampleIndex, weight)]
       ELSE a1

\* if (!isInvertedTree) { ... }: the self time of a non-inverted tree, from the
\* leaf call node of the sample.
leafSelfTime(acc, ctx, sampleIndex, weight, thisNodeIndex, thisFunc) ==
  LET a1 == IF thisNodeIndex = ctx.needleNodeIndex
              THEN [acc EXCEPT !.forPath.selfTime =
                      accumulateDataToTimings(@, ctx.stackTable, ctx.samples, sampleIndex, weight)]
              ELSE acc
  IN IF thisFunc = ctx.needleFuncIndex
       THEN [a1 EXCEPT !.forFunc.selfTime =
               accumulateDataToTimings(@, ctx.stackTable, ctx.samples, sampleIndex, weight)]
       ELSE a1

\* invertedRoot that adds a sample to the total time of the function only
\* when the root of its walk has the function.
invertedRootOfRootFunction(acc, ctx, sampleIndex, weight, currentNodeIndex, currentFuncIndex, funcFound, pathFound) ==
  LET a1 == IF currentNodeIndex = ctx.needleNodeIndex
              THEN [acc EXCEPT !.forPath.selfTime.value = @ + weight]
              ELSE acc
      a2 == IF currentFuncIndex = ctx.needleFuncIndex
              THEN [a1 EXCEPT !.forFunc.selfTime =
                      accumulateDataToTimings(@, ctx.stackTable, ctx.samples, sampleIndex, weight)]
              ELSE a1
      a3 == IF pathFound
              THEN [a2 EXCEPT !.forPath.totalTime =
                      accumulateDataToTimings(@, ctx.stackTable, ctx.samples, sampleIndex, weight)]
              ELSE a2
  IN IF currentFuncIndex = ctx.needleFuncIndex
       THEN [a3 EXCEPT !.forFunc.totalTime =
               accumulateDataToTimings(@, ctx.stackTable, ctx.samples, sampleIndex, weight)]
       ELSE a3

\* if (isInvertedTree && nextStackIndex === null) { ... }: at the root of the
\* walk of an inverted tree.
invertedRoot(acc, ctx, sampleIndex, weight, currentNodeIndex, currentFuncIndex, funcFound, pathFound) ==
  LET a1 == IF currentNodeIndex = ctx.needleNodeIndex
              THEN [acc EXCEPT !.forPath.selfTime.value = @ + weight]
              ELSE acc
      a2 == IF currentFuncIndex = ctx.needleFuncIndex
              THEN [a1 EXCEPT !.forFunc.selfTime =
                      accumulateDataToTimings(@, ctx.stackTable, ctx.samples, sampleIndex, weight)]
              ELSE a1
      a3 == IF pathFound
              THEN [a2 EXCEPT !.forPath.totalTime =
                      accumulateDataToTimings(@, ctx.stackTable, ctx.samples, sampleIndex, weight)]
              ELSE a2
  IN IF funcFound
       THEN [a3 EXCEPT !.forFunc.totalTime =
               accumulateDataToTimings(@, ctx.stackTable, ctx.samples, sampleIndex, weight)]
       ELSE a3

\* The body of the upward walk without the funcFound guard: a function met
\* again on the chain is added again.
visitStackCountingEachOccurrence(w, ctx, sampleIndex, weight, currentStackIndex) ==
  LET currentNodeIndex == ctx.stackIndexToCallNodeIndex[currentStackIndex]
      currentFuncIndex == ctx.callNodeTable.func[currentNodeIndex]
      nextStackIndex == ctx.stackTable.prefix[currentStackIndex]
      isPath == currentNodeIndex = ctx.needleNodeIndex
      isFunc == currentFuncIndex = ctx.needleFuncIndex
      a1 == IF isPath /\ ~ctx.isInvertedTree
              THEN [w.acc EXCEPT !.forPath.totalTime =
                      accumulateDataToTimings(@, ctx.stackTable, ctx.samples, sampleIndex, weight)]
              ELSE w.acc
      a2 == IF isFunc /\ ~ctx.isInvertedTree
              THEN [a1 EXCEPT !.forFunc.totalTime =
                      accumulateDataToTimings(@, ctx.stackTable, ctx.samples, sampleIndex, weight)]
              ELSE a1
      pathFound == w.pathFound \/ isPath
      funcFound == w.funcFound \/ isFunc
      break == ~ctx.isInvertedTree /\ funcFound /\ pathFound
      a3 == IF ~break /\ ctx.isInvertedTree /\ nextStackIndex = Null
              THEN invertedRoot(a2, ctx, sampleIndex, weight, currentNodeIndex,
                                currentFuncIndex, funcFound, pathFound)
              ELSE a2
  IN [acc |-> a3, funcFound |-> funcFound, pathFound |-> pathFound,
      next |-> IF break THEN Null ELSE nextStackIndex]

\* The body of the upward walk at currentStackIndex, on the walk state
\* w = [acc, funcFound, pathFound]; next is the stack the walk goes on with,
\* null after the break and at the root.
visitStack(w, ctx, sampleIndex, weight, currentStackIndex) ==
  LET currentNodeIndex == ctx.stackIndexToCallNodeIndex[currentStackIndex]
      currentFuncIndex == ctx.callNodeTable.func[currentNodeIndex]
      nextStackIndex == ctx.stackTable.prefix[currentStackIndex]
      isPath == currentNodeIndex = ctx.needleNodeIndex
      isFunc == ~w.funcFound /\ currentFuncIndex = ctx.needleFuncIndex
      a1 == IF isPath /\ ~ctx.isInvertedTree
              THEN [w.acc EXCEPT !.forPath.totalTime =
                      accumulateDataToTimings(@, ctx.stackTable, ctx.samples, sampleIndex, weight)]
              ELSE w.acc
      a2 == IF isFunc /\ ~ctx.isInvertedTree
              THEN [a1 EXCEPT !.forFunc.totalTime =
                      accumulateDataToTimings(@, ctx.stackTable, ctx.samples, sampleIndex, weight)]
              ELSE a1
      pathFound == w.pathFound \/ isPath
      funcFound == w.funcFound \/ isFunc
      break == ~ctx.isInvertedTree /\ funcFound /\ pathFound
      a3 == IF ~break /\ ctx.isInvertedTree /\ nextStackIndex = Null
              THEN invertedRoot(a2, ctx, sampleIndex, weight, currentNodeIndex,
                                currentFuncIndex, funcFound, pathFound)
              ELSE a2
  IN [acc |-> a3, funcFound |-> funcFound, pathFound |-> pathFound,
      next |-> IF break THEN Null ELSE nextStackIndex]

\* for (currentStackIndex = thisStackIndex; currentStackIndex !== null; ...)
RECURSIVE walkToRoot(_, _, _, _, _)
walkToRoot(w, ctx, sampleIndex, weight, currentStackIndex) ==
  IF currentStackIndex = Null THEN w.acc
  ELSE LET v == visitStack(w, ctx, sampleIndex, weight, currentStackIndex)
       IN walkToRoot(v, ctx, sampleIndex, weight, v.next)

\* The body of the loop over the samples.
sampleLoopBody(acc, ctx, sampleIndex) ==
  LET thisStackIndex == ctx.samples.stack[sampleIndex]
      weight == sampleWeight(ctx.samples, sampleIndex)
      thisNodeIndex == ctx.stackIndexToCallNodeIndex[thisStackIndex]
      thisFunc == ctx.callNodeTable.func[thisNodeIndex]
      a1 == [acc EXCEPT !.rootTime = addToRootTime(@, weight)]
      a2 == IF ~ctx.isInvertedTree
              THEN leafSelfTime(a1, ctx, sampleIndex, weight, thisNodeIndex, thisFunc)
              ELSE a1
  IN IF thisStackIndex = Null THEN acc
     ELSE walkToRoot([acc |-> a2, funcFound |-> FALSE, pathFound |-> FALSE],
                     ctx, sampleIndex, weight, thisStackIndex)

\* for (sampleIndex = 0; sampleIndex < samples.length; sampleIndex++)
RECURSIVE sampleLoop(_, _, _)
sampleLoop(acc, ctx, sampleIndex) ==
  IF sampleIndex < ctx.samples.length
    THEN sampleLoop(sampleLoopBody(acc, ctx, sampleIndex), ctx, sampleIndex + 1)
    ELSE acc

\* getTimingsForCallNodeIndex(needle, { callNodeTable, stackIndexToCallNodeIndex },
\*   interval, inverted, thread, thread, 0, categories, samples, samples)
getTimingsForCallNodeIndex(needle, t, map, inverted, st, smp) ==
  IF needle = Null THEN EmptyTimings
  ELSE sampleLoop(EmptyTimings,
                  [needleNodeIndex |-> needle, needleFuncIndex |-> t.func[needle],
                   callNodeTable |-> t, stackIndexToCallNodeIndex |-> map,
                   isInvertedTree |-> inverted, stackTable |-> st, samples |-> smp],
                  0)

\* ------------------------------------ specification: the timing aggregation
\* The weight columns of samples tables of n samples: no column, or weights
\* 1, -2, 4, -8, ...: the sum of a set of them tells which samples are in the set.
RECURSIVE PowerOfTwo(_)
PowerOfTwo(i) == IF i = 0 THEN 1 ELSE 2 * PowerOfTwo(i - 1)
WeightCols(n) ==
  {Absent, Present([i \in 0 .. n - 1 |-> IF i % 2 = 1 THEN -PowerOfTwo(i) ELSE PowerOfTwo(i)])}

\* Samples tables of n samples over a stack table of the given length.
SamplesTables(n, stackCount) ==
  {[length |-> n, stack |-> stacks, weight |-> weights] :
     stacks \in [0 .. n - 1 -> {Null} \cup 0 .. stackCount - 1], weights \in WeightCols(n)}

\* A thread whose stacks all have category JavaScript, its call node info,
\* and a samples table over its stacks.
InitTimings ==
  /\ SyncIdle
  /\ pc = "getTimingsForCallNodeIndex"
  /\ \E n \in 1 .. MaxStacks : stackTable \in StackTables(n, {<<1, 1>>})
  /\ defaultCategory = 0
  /\ BuilderDone
  /\ PathsIdle
  /\ \E n \in {0, MaxSamples} : samples \in SamplesTables(n, stackTable.length)
  /\ TimingsIdle
  /\ InvertIdle
  /\ NoAllocations
  /\ CallsIdle

\* A call to getTimingsForCallNodeIndex, for any needle and tree orientation.
GetTimingsForCallNodeIndex ==
  /\ pc = "getTimingsForCallNodeIndex"
  /\ \E needle \in {Null} \cup 0 .. callNodeTable.length - 1, inverted \in BOOLEAN :
       /\ needleNodeIndex' = needle
       /\ isInvertedTree' = inverted
       /\ timings' = getTimingsForCallNodeIndex(needle, callNodeTable, stackIndexToCallNodeIndex,
                                                inverted, stackTable, samples)
  /\ pc' = "done"
  /\ UNCHANGED <<inputVars, syncVars, builderVars, pathVars, invertVars, callVars>>

NextTimings == GetTimingsForCallNodeIndex

SpecTimings == InitTimings /\ [][NextTimings]_vars

\* ------------------------------------------------------ invertCallstack
\* The local state of invertCallstack before the first stack is converted.
NewInversion ==
  [newStackTable |-> [length |-> 0, frame |-> EmptyCol, category |-> EmptyCol,
                      subcategory |-> EmptyCol, prefix |-> EmptyCol],
   prefixAndFrameToStack |-> EmptyCol,
   oldStackToNewStack |-> EmptyCol]

\* prefix + frame: a key under which distinct (prefix, frame) pairs collide.
prefixAndFrameSum(prefix, frame) ==
  (IF prefix = Null THEN -1 ELSE prefix) + frame

\* (prefix === null ? -1 : prefix) * frameCount + frame
prefixAndFrameIndex(prefix, frame) ==
  (IF prefix = Null THEN -1 ELSE prefix) * frameTable.length + frame

\* stackFor: the inversion state after the call, and the stack it returns.
stackFor(inv, prefix, frame, category, subcategory, defCategory) ==
  LET key == prefixAndFrameIndex(prefix, frame)
      t == inv.newStackTable
      found == key \in DOMAIN inv.prefixAndFrameToStack
      stack == IF found THEN inv.prefixAndFrameToStack[key] ELSE t.length
      newTable ==
        IF ~found
          THEN [length |-> t.length + 1,
                prefix |-> SetAt(t.prefix, stack, prefix),
                frame |-> SetAt(t.frame, stack, frame),
                category |-> SetAt(t.category, stack, category),
                subcategory |-> SetAt(t.subcategory, stack, subcategory)]
        ELSE IF t.category[stack] # category
          THEN [t EXCEPT !.category[stack] = defCategory, !.subcategory[stack] = 0]
        ELSE IF t.subcategory[stack] # subcategory
          THEN [t EXCEPT !.subcategory[stack] = 0]
        ELSE t
  IN [inv |-> [inv EXCEPT !.newStackTable = newTable,
                          !.prefixAndFrameToStack =
                             IF found THEN @ ELSE SetAt(@, key, stack)],
      stack |-> stack]

\* The loop of convertStack that stops below the root stack.
RECURSIVE invertChainBelowRoot(_, _, _, _, _)
invertChainBelowRoot(inv, st, defCategory, newStack, currentStack) ==
  IF st.prefix[currentStack] = Null THEN [inv |-> inv, stack |-> newStack]
  ELSE LET r == stackFor(inv, newStack, st.frame[currentStack], st.category[currentStack],
                         st.subcategory[currentStack], defCategory)
       IN invertChainBelowRoot(r.inv, st, defCategory, r.stack, st.prefix[currentStack])

\* The loop of convertStack: from currentStack up to the root, each stack
\* becomes a child of the stack made for the one below it.
RECURSIVE invertChain(_, _, _, _, _)
invertChain(inv, st, defCategory, newStack, currentStack) ==
  IF currentStack = Null THEN [inv |-> inv, stack |-> newStack]
  ELSE LET r == stackFor(inv, newStack, st.frame[currentStack], st.category[currentStack],
                         st.subcategory[currentStack], defCategory)
       IN invertChain(r.inv, st, defCategory, r.stack, st.prefix[currentStack])

\* convertStack of invertCallstack.
convertStack(inv, st, defCategory, oldStack) ==
  IF oldStack = Null THEN [inv |-> inv, stack |-> Null]
  ELSE IF oldStack \in DOMAIN inv.oldStackToNewStack
    THEN [inv |-> inv, stack |-> inv.oldStackToNewStack[oldStack]]
  ELSE LET r == invertChain(inv, st, defCategory, Null, oldStack)
       IN [inv |-> [r.inv EXCEPT !.oldStackToNewStack = SetAt(@, oldStack, r.stack)],
           stack |-> r.stack]

\* samples.stack.map(oldStack => convertStack(oldStack)), from sample i on.
RECURSIVE convertSampleStacks(_, _, _, _, _, _)
convertSampleStacks(inv, st, defCategory, smp, i, newStacks) ==
  IF i < smp.length
    THEN LET r == convertStack(inv, st, defCategory, smp.stack[i])
         IN convertSampleStacks(r.inv, st, defCategory, smp, i + 1, SetAt(newStacks, i, r.stack))
    ELSE [inv |-> inv, stacks |-> newStacks]

\* invertCallstack, with updateThreadStacks, on a thread without jsAllocations
\* and nativeAllocations: the new stack table and the samples on it.
invertCallstack(thread, defCategory) ==
  LET r == convertSampleStacks(NewInversion, thread.stackTable, defCategory,
                               thread.samples, 0, EmptyCol)
  IN [stackTable |-> r.inv.newStackTable,
      samples |-> [thread.samples EXCEPT !.stack = r.stacks]]

\* ------------------------------------------ specification: the inverter
\* The thread before any inversion, and the thread after k inversions.
OriginalThread == [stackTable |-> stackTable, samples |-> samples]
ThreadAfter(k) == IF k = 0 THEN OriginalThread ELSE inversions[k]

InitInvert ==
  /\ SyncIdle
  /\ pc = "invertCallstack"
  /\ \E n \in 1 .. MaxStacks : stackTable \in StackTables(n, {<<0, 1>>, <<1, 1>>})
  /\ defaultCategory = 0
  /\ samples \in {smp \in SamplesTables(MaxSamples, stackTable.length) : smp.weight = Absent}
  /\ BuilderIdle
  /\ PathsIdle
  /\ TimingsIdle
  /\ InvertIdle
  /\ NoAllocations
  /\ CallsIdle

\* invertCallstack on the thread the last call returned (the original thread first).
InvertCallstack ==
  /\ pc = "invertCallstack"
  /\ Len(inversions) < MaxInversions
  /\ inversions' = Append(inversions, invertCallstack(ThreadAfter(Len(inversions)), defaultCategory))
  /\ UNCHANGED <<pc, inputVars, syncVars, builderVars, pathVars, timingVars, callVars>>

NextInvert == InvertCallstack

SpecInvert == InitInvert /\ [][NextInvert]_vars

\* ------------------------------------------------- claims on the builder
StackIndexes == 0 .. stackTable.length - 1
CallNodeIndexes == 0 .. callNodeTable.length - 1

\* The call node of the prefix of stack s, -1 for a stack without prefix.
PrefixCallNodeOf(s) ==
  IF stackTable.prefix[s] = Null THEN -1 ELSE stackIndexToCallNodeIndex[stackTable.prefix[s]]

\* The stacks collapsed into call node c.
StacksOf(c) == {s \in StackIndexes : stackIndexToCallNodeIndex[s] = c}

\* C1: in the table getCallNodeInfo returns, every column has `length` entries,
\* a call node with a prefix has a prefix of smaller index whose depth is one
\* less than its own, and a call node whose prefix is -1 has depth 0.
C1_PrefixBeforeNodeAndDepth ==
  pc = "done" =>
    /\ \A col \in {callNodeTable.prefix, callNodeTable.func, callNodeTable.depth} :
         DOMAIN col = CallNodeIndexes
    /\ \A i \in CallNodeIndexes :
         IF callNodeTable.prefix[i] # -1
           THEN /\ callNodeTable.prefix[i] \in 0 .. i - 1
                /\ callNodeTable.depth[callNodeTable.prefix[i]] + 1 = callNodeTable.depth[i]
           ELSE callNodeTable.depth[i] = 0

\* C1 witness: the builder returned a table with a call node of depth 2.
C1_Witness ==
  /\ pc = "done"
  /\ \E i \in CallNodeIndexes : callNodeTable.depth[i] = 2 /\ callNodeTable.prefix[i] # -1

\* C2: the returned stackIndexToCallNodeIndex maps every stack to an existing
\* call node that has the function of the stack's frame and, as prefix, the
\* call node of the stack's prefix (-1 without prefix); two stacks share a call
\* node exactly when they have the same function and their prefixes share one.
C2_MapTotalAndStructurePreserving ==
  pc = "done" =>
    /\ DOMAIN stackIndexToCallNodeIndex = StackIndexes
    /\ \A s \in StackIndexes :
         LET c == stackIndexToCallNodeIndex[s] IN
         /\ c \in CallNodeIndexes
         /\ callNodeTable.func[c] = frameTable.func[stackTable.frame[s]]
         /\ callNodeTable.prefix[c] = PrefixCallNodeOf(s)
    /\ \A s1, s2 \in StackIndexes :
         (stackIndexToCallNodeIndex[s1] = stackIndexToCallNodeIndex[s2])
           <=> /\ frameTable.func[stackTable.frame[s1]] = frameTable.func[stackTable.frame[s2]]
               /\ PrefixCallNodeOf(s1) = PrefixCallNodeOf(s2)

\* C2 witness: two stacks of different frames and different prefix stacks were
\* collapsed into one call node below the root, and a third stack was not.
C2_Witness ==
  /\ pc = "done"
  /\ \E s1, s2 \in StackIndexes :
       /\ s1 # s2
       /\ stackTable.frame[s1] # stackTable.frame[s2]
       /\ stackIndexToCallNodeIndex[s1] = stackIndexToCallNodeIndex[s2]
       /\ stackTable.prefix[s1] # Null
  /\ callNodeTable.length >= 2

\* C3: a call node whose stacks all have one category keeps it, and keeps the
\* subcategory too when they all have one subcategory, but has subcategory 0
\* when they do not; a call node whose stacks differ in category has the
\* default category and subcategory 0.  The order of the stacks plays no part.
C3_CategoryOfCollapsedStacks ==
  pc = "done" =>
    \A c \in CallNodeIndexes :
      LET cats == {stackTable.category[s] : s \in StacksOf(c)}
          subs == {stackTable.subcategory[s] : s \in StacksOf(c)}
      IN IF Cardinality(cats) = 1
           THEN /\ callNodeTable.category[c] \in cats
                /\ IF Cardinality(subs) = 1
                     THEN callNodeTable.subcategory[c] \in subs
                     ELSE callNodeTable.subcategory[c] = 0
           ELSE /\ callNodeTable.category[c] = defaultCategory
                /\ callNodeTable.subcategory[c] = 0

\* C3 witness: three stacks were collapsed into one call node; the first two
\* agree on the category and differ in the subcategory, the third has another
\* category, and the default category is the category of the first.
C3_Witness ==
  /\ pc = "done"
  /\ \E c \in CallNodeIndexes :
       /\ StacksOf(c) = {0, 1, 2}
       /\ stackTable.category[0] = stackTable.category[1]
       /\ stackTable.subcategory[0] # stackTable.subcategory[1]
       /\ stackTable.category[2] # stackTable.category[0]
       /\ defaultCategory = stackTable.category[0]

\* ------------------------------------------- claims on the path resolver
\* The first call node that has prefix parent and function func, null if none.
ChildOf(parent, func) ==
  LET found == {c \in CallNodeIndexes :
                  callNodeTable.prefix[c] = parent /\ callNodeTable.func[c] = func}
  IN IF found = {} THEN Null ELSE CHOOSE c \in found : \A d \in found : c <= d

\* The call node reached from the root along the first k functions of path,
\* without any cache: -1 for k = 0, null once a function has no matching child.
RECURSIVE TopDown(_, _)
TopDown(path, k) ==
  IF k = 0 THEN -1
  ELSE LET parent == TopDown(path, k - 1)
       IN IF parent = Null THEN Null ELSE ChildOf(parent, path[k])

\* What a cache-free resolution of path returns.
Denoted(path) == IF path = <<>> THEN Null ELSE TopDown(path, Len(path))

\* C4: for every call node n of a table built by getCallNodeInfo,
\* getCallNodeIndexFromPath(getCallNodePathFromIndex(n, T), T) = n, and no two
\* call nodes of the table share their (prefix, func) pair.
C4_PathRoundTrip ==
  /\ roundTripNode # Null =>
       /\ Len(callNodePath) = callNodeTable.depth[roundTripNode] + 1
       /\ resolved = roundTripNode
  /\ \A c, d \in CallNodeIndexes :
       (callNodeTable.prefix[c] = callNodeTable.prefix[d]
          /\ callNodeTable.func[c] = callNodeTable.func[d]) => c = d

\* C4 witness: the path of a call node of depth 2 went through the round trip.
C4_Witness ==
  /\ roundTripNode # Null
  /\ callNodeTable.depth[roundTripNode] = 2
  /\ Len(callNodePath) = 3

\* C5: whatever paths were resolved before against the shared cache, the index
\* returned for a path is the one a cache-free top-down resolution returns
\* (null when some prefix has no matching child), and every cache entry is the
\* hash of a path mapped to the call node that path denotes.
C5_CacheTransparent ==
  /\ resolved = Denoted(callNodePath)
  /\ \A h \in DOMAIN cache :
       \E path \in CallNodePaths : hashPath(path) = h /\ cache[h] # Null
  /\ \A path \in CallNodePaths :
       hashPath(path) \in DOMAIN cache => cache[hashPath(path)] = Denoted(path)

\* C5 witness: a path of two functions was resolved to a call node while the
\* cache held an entry for another path of two functions with the same parent.
C5_Witness ==
  /\ roundTripNode = Null
  /\ Len(callNodePath) = 2
  /\ resolved # Null
  /\ \E path \in CallNodePaths :
       /\ hashPath(path) \in DOMAIN cache
       /\ Len(path) = 2
       /\ path # callNodePath
       /\ path[1] = callNodePath[1]

\* --------------------------------------- claims on the timing aggregation
SampleIndexes == 0 .. samples.length - 1

\* The weight of a sample: 1 when the table has no weight column.
WeightOf(i) == IF samples.weight = Absent THEN 1 ELSE samples.weight[1][i]

\* The stacks on the ancestor chain of stack s, s included.
RECURSIVE StackChain(_)
StackChain(s) == IF s = Null THEN {} ELSE {s} \cup StackChain(stackTable.prefix[s])

\* The sum of the weights of a set of samples.
RECURSIVE SumOfWeights(_)
SumOfWeights(S) ==
  IF S = {} THEN 0
  ELSE LET i == CHOOSE j \in S : TRUE IN WeightOf(i) + SumOfWeights(S \ {i})

RECURSIVE SumOfAbsWeights(_)
SumOfAbsWeights(S) ==
  IF S = {} THEN 0
  ELSE LET i == CHOOSE j \in S : TRUE IN Abs(WeightOf(i)) + SumOfAbsWeights(S \ {i})

\* The samples that have a stack.
SamplesWithStack == {i \in SampleIndexes : samples.stack[i] # Null}

\* The call nodes on the ancestor chain of sample i.
CallNodesOnChain(i) ==
  {stackIndexToCallNodeIndex[s] : s \in StackChain(samples.stack[i])}

NeedleFunc == callNodeTable.func[needleNodeIndex]

\* C6: for a needle that is not null, rootTime is the sum of |weight| (1
\* without weight column) over the samples that have a stack, whatever the
\* needle and the orientation; for a null needle rootTime and the four
\* timing values are 0 and the breakdowns are null.
C6_RootTime ==
  pc = "done" =>
    IF needleNodeIndex # Null
      THEN timings.rootTime = SumOfAbsWeights(SamplesWithStack)
      ELSE /\ timings.rootTime = 0
           /\ \A timing \in {timings.forPath.selfTime, timings.forPath.totalTime,
                             timings.forFunc.selfTime, timings.forFunc.totalTime} :
                /\ timing.value = 0
                /\ timing.breakdownByImplementation = Absent
                /\ timing.breakdownByCategory = Absent

\* C6 witness: timings were computed for a call node, on an inverted tree, from
\* weighted samples of which one has a negative weight and one has no stack.
C6_Witness ==
  /\ pc = "done"
  /\ needleNodeIndex # Null
  /\ isInvertedTree
  /\ samples.weight # Absent
  /\ \E i \in SamplesWithStack : WeightOf(i) < 0
  /\ \E i \in SampleIndexes : samples.stack[i] = Null
  /\ timings.rootTime > 0

\* C7: on a non-inverted tree, forPath.selfTime.value is the sum of the weights
\* of the samples whose own stack maps to the needle, and forFunc.selfTime.value
\* the sum over the samples whose own call node has the needle's function.
C7_SelfTimeAtLeaf ==
  (pc = "done" /\ needleNodeIndex # Null /\ ~isInvertedTree) =>
    /\ timings.forPath.selfTime.value =
         SumOfWeights({i \in SamplesWithStack :
                         stackIndexToCallNodeIndex[samples.stack[i]] = needleNodeIndex})
    /\ timings.forFunc.selfTime.value =
         SumOfWeights({i \in SamplesWithStack :
                         callNodeTable.func[stackIndexToCallNodeIndex[samples.stack[i]]] = NeedleFunc})

\* C7 witness: three samples of weight 1 with leaf call nodes A, B, A, two
\* distinct root call nodes, give forPath.selfTime.value 2 and rootTime 3 for A.
C7_Witness ==
  /\ pc = "done"
  /\ ~isInvertedTree
  /\ samples.length = 3
  /\ samples.weight = Absent
  /\ \A i \in SampleIndexes : samples.stack[i] # Null
  /\ LET leaf == [i \in SampleIndexes |-> stackIndexToCallNodeIndex[samples.stack[i]]] IN
     /\ leaf[0] = needleNodeIndex
     /\ leaf[2] = needleNodeIndex
     /\ leaf[1] # needleNodeIndex
     /\ callNodeTable.depth[leaf[0]] = 0
     /\ callNodeTable.depth[leaf[1]] = 0
  /\ timings.forPath.selfTime.value = 2
  /\ timings.rootTime = 3

\* C8: a sample adds its weight to forPath.totalTime.value once when the needle
\* is on its ancestor chain and not otherwise, and to forFunc.totalTime.value
\* once when a call node of the chain has the needle's function, however often
\* the function occurs on the chain and wherever the walk stops.
C8_TotalTimeOncePerSample ==
  (pc = "done" /\ needleNodeIndex # Null) =>
    /\ timings.forPath.totalTime.value =
         SumOfWeights({i \in SamplesWithStack : needleNodeIndex \in CallNodesOnChain(i)})
    /\ timings.forFunc.totalTime.value =
         SumOfWeights({i \in SamplesWithStack :
                         \E c \in CallNodesOnChain(i) : callNodeTable.func[c] = NeedleFunc})

\* C8 witness: on a non-inverted tree a sample has a chain of three stacks that
\* all run the needle's function, the needle being the call node in the middle
\* (the walk stops below the root), and another sample is off the needle's path.
C8_Witness ==
  /\ pc = "done"
  /\ needleNodeIndex # Null
  /\ ~isInvertedTree
  /\ samples.weight # Absent
  /\ \E i \in SamplesWithStack :
       /\ Cardinality(StackChain(samples.stack[i])) = 3
       /\ \A c \in CallNodesOnChain(i) : callNodeTable.func[c] = NeedleFunc
       /\ callNodeTable.depth[needleNodeIndex] = 1
       /\ needleNodeIndex \in CallNodesOnChain(i)
  /\ \E i \in SamplesWithStack : needleNodeIndex \notin CallNodesOnChain(i)

\* ------------------------------------------------ claims on the inverter
\* The frames of stack s of table st from the root stack down to s.
RECURSIVE RootToLeafFrames(_, _)
RootToLeafFrames(st, s) ==
  IF s = Null THEN <<>> ELSE Append(RootToLeafFrames(st, st.prefix[s]), st.frame[s])

\* The root-to-leaf frames of the stack of sample i of a thread; Absent for a
\* sample without stack.
SamplePath(thread, i) ==
  IF thread.samples.stack[i] = Null THEN Absent
  ELSE Present(RootToLeafFrames(thread.stackTable, thread.samples.stack[i]))

ReversedPath(path) == IF path = Absent THEN Absent ELSE Present(Reverse(ValueOf(path)))

\* C9: after two inversions every sample has the root-to-leaf frame sequence
\* it had before them, and a sample without stack is still without stack.
C9_InvertTwiceKeepsPaths ==
  \A k \in 2 .. Len(inversions) :
    /\ ThreadAfter(k).samples.length = ThreadAfter(k - 2).samples.length
    /\ \A i \in 0 .. ThreadAfter(k).samples.length - 1 :
         SamplePath(ThreadAfter(k), i) = SamplePath(ThreadAfter(k - 2), i)

\* C9 witness: a thread was inverted twice that has a sample with a stack of
\* depth 2 or more and a sample without stack, and the two inversions gave
\* some sample another stack index than it had.
C9_Witness ==
  /\ Len(inversions) >= 2
  /\ \E i, k \in 0 .. samples.length - 1 :
       /\ SamplePath(OriginalThread, i) # Absent
       /\ Len(ValueOf(SamplePath(OriginalThread, i))) >= 2
       /\ samples.stack[k] = Null
  /\ \E i \in 0 .. samples.length - 1 :
       /\ samples.stack[i] # Null
       /\ inversions[2].samples.stack[i] # samples.stack[i]

\* C10: an inversion gives every sample a stack whose root-to-leaf frame
\* sequence is the reverse of the one it had, and no two entries of the new
\* stack table have the same (prefix, frame) pair.
C10_InvertReversesPaths ==
  \A k \in 1 .. Len(inversions) :
    /\ \A i \in 0 .. ThreadAfter(k).samples.length - 1 :
         SamplePath(ThreadAfter(k), i) = ReversedPath(SamplePath(ThreadAfter(k - 1), i))
    /\ LET t == ThreadAfter(k).stackTable IN
       \A s1, s2 \in 0 .. t.length - 1 :
         (t.prefix[s1] = t.prefix[s2] /\ t.frame[s1] = t.frame[s2]) => s1 = s2

\* C10 witness: a sample whose stack has three different frames from root to
\* leaf was inverted, and two samples share the root of the inverted tree.
C10_Witness ==
  /\ Len(inversions) >= 1
  /\ \E i, j \in 0 .. samples.length - 1 :
       /\ i # j
       /\ SamplePath(OriginalThread, i) # Absent
       /\ SamplePath(OriginalThread, j) # Absent
       /\ Len(ValueOf(SamplePath(OriginalThread, i))) = 3
       /\ ValueOf(SamplePath(OriginalThread, i))[1] # ValueOf(SamplePath(OriginalThread, i))[3]
       /\ samples.stack[i] # samples.stack[j]
       /\ ValueOf(SamplePath(inversions[1], i))[1] = ValueOf(SamplePath(inversions[1], j))[1]

\* ---------------------------------------------------- the thread filters
\* The thread the filters are given.
Thread ==
  [stackTable |-> stackTable, samples |-> samples,
   jsAllocations |-> jsAllocations, nativeAllocations |-> nativeAllocations]

\* array[index] of a JS array or Map.get(index): undefined (Null) where nothing was stored.
At(col, index) == IF index \in DOMAIN col THEN col[index] ELSE Null

\* The characters of the strings of the string table.
getCharacters(string) ==
  CASE string = "ion" -> <<"i", "o", "n">>
    [] string = "Ab" -> <<"A", "b">>
    [] string = "c" -> <<"c">>
    [] string = "d" -> <<"d">>
    [] string = "Ze" -> <<"Z", "e">>

\* String.prototype.toLowerCase, includes and startsWith on character sequences.
toLowerCase(chars) ==
  [i \in 1 .. Len(chars) |->
     CASE chars[i] = "A" -> "a"
       [] chars[i] = "B" -> "b"
       [] chars[i] = "Z" -> "z"
       [] OTHER -> chars[i]]
includes(chars, searched) ==
  \E i \in 0 .. Len(chars) - Len(searched) : SubSeq(chars, i + 1, i + Len(searched)) = searched
startsWith(chars, searched) ==
  Len(searched) <= Len(chars) /\ SubSeq(chars, 1, Len(searched)) = searched

\* updateThreadStacks with a convertStack that keeps no state, given as the
\* function of the old stacks and null it computes: the stack
\* columns of the samples and of the allocation tables that are there.
updateThreadStacks(thread, newStackTable, convert) ==
  LET mapStacks(table) == [table EXCEPT !.stack = [i \in DOMAIN table.stack |-> convert[table.stack[i]]]]
      mapAllocations(allocations) ==
        IF allocations = Absent THEN Absent ELSE Present(mapStacks(ValueOf(allocations)))
  IN [stackTable |-> newStackTable,
      samples |-> mapStacks(thread.samples),
      jsAllocations |-> mapAllocations(thread.jsAllocations),
      nativeAllocations |-> mapAllocations(thread.nativeAllocations)]

\* computeFuncMatchesFilter looking at the name of the function only.
computeFuncMatchesFilterByNameOnly(func, lowercaseSearchString) ==
  includes(toLowerCase(getCharacters(stringTable[funcTable.name[func]])), lowercaseSearchString)

\* computeFuncMatchesFilter of filterThreadToSearchString.
computeFuncMatchesFilter(func, lowercaseSearchString) ==
  LET nameString == getCharacters(stringTable[funcTable.name[func]])
      fileNameIndex == funcTable.fileName[func]
      resourceNameIndex == At(resourceTable.name, funcTable.resource[func])
  IN IF includes(toLowerCase(nameString), lowercaseSearchString) THEN TRUE
     ELSE IF fileNameIndex # Null
               /\ includes(toLowerCase(getCharacters(stringTable[fileNameIndex])), lowercaseSearchString)
       THEN TRUE
     ELSE IF resourceNameIndex # Null
               /\ includes(toLowerCase(getCharacters(stringTable[resourceNameIndex])), lowercaseSearchString)
       THEN TRUE
     ELSE FALSE

\* stackMatchesFilter of filterThreadToSearchString (its caches hold the
\* results of earlier calls with the same argument).
RECURSIVE searchStackMatchesFilter(_, _, _)
searchStackMatchesFilter(st, oldStack, lowercaseSearchString) ==
  IF oldStack = Null THEN FALSE
  ELSE IF searchStackMatchesFilter(st, st.prefix[oldStack], lowercaseSearchString) THEN TRUE
  ELSE computeFuncMatchesFilter(frameTable.func[st.frame[oldStack]], lowercaseSearchString)

\* filterThreadToSearchString moving a matching sample to the prefix of its stack.
filterThreadToSearchStringToPrefix(thread, searchString) ==
  IF searchString = <<>> THEN thread
  ELSE LET lowercaseSearchString == toLowerCase(searchString)
           keepMatching ==
             [oldStack \in {Null} \cup 0 .. thread.stackTable.length - 1 |->
                IF searchStackMatchesFilter(thread.stackTable, oldStack, lowercaseSearchString)
                 THEN thread.stackTable.prefix[oldStack] ELSE Null]
       IN updateThreadStacks(thread, thread.stackTable, keepMatching)

\* filterThreadToSearchString: the empty string is falsy and returns the thread.
filterThreadToSearchString(thread, searchString) ==
  IF searchString = <<>> THEN thread
  ELSE LET lowercaseSearchString == toLowerCase(searchString)
           keepMatching ==
             [oldStack \in {Null} \cup 0 .. thread.stackTable.length - 1 |->
                IF searchStackMatchesFilter(thread.stackTable, oldStack, lowercaseSearchString)
                 THEN oldStack ELSE Null]
       IN updateThreadStacks(thread, thread.stackTable, keepMatching)

\* searchStrings.reduce(filterThreadToSearchString, thread), from string i on.
RECURSIVE reduceSearchStrings(_, _, _)
reduceSearchStrings(thread, searchStrings, i) ==
  IF i > Len(searchStrings) THEN thread
  ELSE reduceSearchStrings(filterThreadToSearchString(thread, searchStrings[i]), searchStrings, i + 1)

\* filterThreadToSearchStrings; a null list is the empty list here.
filterThreadToSearchStrings(thread, searchStrings) ==
  IF searchStrings = <<>> THEN thread
  ELSE reduceSearchStrings(thread, searchStrings, 1)

\* frameMatchesFilter taking any window of the set, positive or not.
frameMatchesFilterAnyWindow(frame, relevantPages) ==
  frameTable.innerWindowID[frame] # Null /\ frameTable.innerWindowID[frame] \in relevantPages

\* frameMatchesFilter of filterThreadByTab.
frameMatchesFilter(frame, relevantPages) ==
  LET innerWindowID == frameTable.innerWindowID[frame] IN
  IF innerWindowID # Null /\ innerWindowID # 0 /\ innerWindowID > 0
    THEN innerWindowID \in relevantPages
    ELSE FALSE

\* stackMatchesFilter of filterThreadByTab (the caches of the two functions
\* hold the results of earlier calls with the same argument).
RECURSIVE tabStackMatchesFilter(_, _, _)
tabStackMatchesFilter(st, oldStack, relevantPages) ==
  IF oldStack = Null THEN FALSE
  ELSE IF tabStackMatchesFilter(st, st.prefix[oldStack], relevantPages) THEN TRUE
  ELSE frameMatchesFilter(st.frame[oldStack], relevantPages)

filterThreadByTab(thread, relevantPages) ==
  IF Cardinality(relevantPages) = 0 THEN thread
  ELSE LET keepMatching ==
             [oldStack \in {Null} \cup 0 .. thread.stackTable.length - 1 |->
                IF tabStackMatchesFilter(thread.stackTable, oldStack, relevantPages)
                 THEN oldStack ELSE Null]
       IN updateThreadStacks(thread, thread.stackTable, keepMatching)

\* The filters of filterThreadByImplementation: 'cpp' keeps the functions that
\* are not JS and not JIT code, 'js' those that are JS or relevant for JS.
implementationFilter(implementation, funcIndex) ==
  IF implementation = "cpp"
    THEN IF funcTable.isJS[funcIndex] THEN FALSE
         ELSE LET locationString == getCharacters(stringTable[funcTable.name[funcIndex]])
                  isProbablyJitCode == /\ funcTable.resource[funcIndex] = -1
                                       /\ startsWith(locationString, <<"0", "x">>)
              IN ~isProbablyJitCode
    ELSE funcTable.isJS[funcIndex] \/ funcTable.relevantForJS[funcIndex]

\* _filterThreadByFunc before any stack is converted.
NewFilter ==
  [newStackTable |-> [length |-> 0, frame |-> EmptyCol, prefix |-> EmptyCol,
                      category |-> EmptyCol, subcategory |-> EmptyCol],
   oldStackToNewStack |-> EmptyCol,
   prefixStackAndFrameToStack |-> EmptyCol]

prefixStackAndFrameIndex(prefixNewStack, frameIndex) ==
  (IF prefixNewStack = Null THEN -1 ELSE prefixNewStack) * frameTable.length + frameIndex

\* convertStack of _filterThreadByFunc for a frame the filter keeps: the new
\* stack of (prefixNewStack, frameIndex), made or found, and the two maps.
keepFrame(c, st, defCategory, oldStack, prefixNewStack, frameIndex) ==
  LET key == prefixStackAndFrameIndex(prefixNewStack, frameIndex)
      t == c.newStackTable
      found == At(c.prefixStackAndFrameToStack, key)
      newStack == IF found = Null THEN t.length ELSE found
      table ==
        IF found = Null
          THEN [length |-> t.length + 1,
                prefix |-> SetAt(t.prefix, newStack, prefixNewStack),
                frame |-> SetAt(t.frame, newStack, frameIndex),
                category |-> SetAt(t.category, newStack, st.category[oldStack]),
                subcategory |-> SetAt(t.subcategory, newStack, st.subcategory[oldStack])]
        ELSE IF t.category[newStack] # st.category[oldStack]
          THEN [t EXCEPT !.category = SetAt(t.category, newStack, defCategory),
                         !.subcategory = SetAt(t.subcategory, newStack, 0)]
        ELSE IF At(t.subcategory, oldStack) # st.subcategory[oldStack]
          THEN [t EXCEPT !.subcategory = SetAt(t.subcategory, oldStack, 0)]
        ELSE t
  IN [c |-> [newStackTable |-> table,
             oldStackToNewStack |-> SetAt(c.oldStackToNewStack, oldStack, newStack),
             prefixStackAndFrameToStack |-> SetAt(c.prefixStackAndFrameToStack, key, newStack)],
      newStack |-> newStack]

\* convertStack of _filterThreadByFunc dropping a stack whose frame is filtered out.
RECURSIVE filterConvertStackDroppingSubtree(_, _, _, _, _)
filterConvertStackDroppingSubtree(c, st, implementation, defCategory, oldStack) ==
  IF oldStack = Null THEN [c |-> c, newStack |-> Null]
  ELSE IF oldStack \in DOMAIN c.oldStackToNewStack
    THEN [c |-> c, newStack |-> c.oldStackToNewStack[oldStack]]
  ELSE LET p == filterConvertStackDroppingSubtree(c, st, implementation, defCategory, st.prefix[oldStack])
           frameIndex == st.frame[oldStack]
       IN IF implementationFilter(implementation, frameTable.func[frameIndex])
            THEN keepFrame(p.c, st, defCategory, oldStack, p.newStack, frameIndex)
            ELSE [c |-> p.c, newStack |-> Null]

\* convertStack of _filterThreadByFunc: the new stack of an old stack, and
\* the tables after the call.
RECURSIVE filterConvertStack(_, _, _, _, _)
filterConvertStack(c, st, implementation, defCategory, oldStack) ==
  IF oldStack = Null THEN [c |-> c, newStack |-> Null]
  ELSE IF oldStack \in DOMAIN c.oldStackToNewStack
    THEN [c |-> c, newStack |-> c.oldStackToNewStack[oldStack]]
  ELSE LET p == filterConvertStack(c, st, implementation, defCategory, st.prefix[oldStack])
           frameIndex == st.frame[oldStack]
       IN IF implementationFilter(implementation, frameTable.func[frameIndex])
            THEN keepFrame(p.c, st, defCategory, oldStack, p.newStack, frameIndex)
            ELSE [c |-> p.c, newStack |-> p.newStack]

\* stack.map(oldStack => convertStack(oldStack)) from entry i on.
RECURSIVE filterConvertStacks(_, _, _, _, _, _, _)
filterConvertStacks(c, st, implementation, defCategory, stacks, i, converted) ==
  IF i \notin DOMAIN stacks THEN [c |-> c, stacks |-> converted]
  ELSE LET r == filterConvertStack(c, st, implementation, defCategory, stacks[i]) IN
       filterConvertStacks(r.c, st, implementation, defCategory, stacks, i + 1,
                           SetAt(converted, i, r.newStack))

\* The same for an allocation table, which may be absent.
filterConvertAllocations(c, st, implementation, defCategory, allocations) ==
  IF allocations = Absent THEN [c |-> c, allocations |-> Absent]
  ELSE LET r == filterConvertStacks(c, st, implementation, defCategory,
                                    ValueOf(allocations).stack, 0, EmptyCol)
       IN [c |-> r.c, allocations |-> Present([ValueOf(allocations) EXCEPT !.stack = r.stacks])]

\* _filterThreadByFunc with updateThreadStacks: the samples are converted
\* first, then jsAllocations, then nativeAllocations; the new stack table is
\* the table after the last conversion.
filterThreadByFunc(thread, implementation, defCategory) ==
  LET st == thread.stackTable
      s == filterConvertStacks(NewFilter, st, implementation, defCategory,
                               thread.samples.stack, 0, EmptyCol)
      js == filterConvertAllocations(s.c, st, implementation, defCategory, thread.jsAllocations)
      native == filterConvertAllocations(js.c, st, implementation, defCategory,
                                         thread.nativeAllocations)
  IN [stackTable |-> native.c.newStackTable,
      samples |-> [thread.samples EXCEPT !.stack = s.stacks],
      jsAllocations |-> js.allocations,
      nativeAllocations |-> native.allocations]

filterThreadByImplementation(thread, implementation, defCategory) ==
  IF implementation \in {"cpp", "js"}
    THEN filterThreadByFunc(thread, implementation, defCategory)
    ELSE thread

\* ---------------------------------- specification: the thread filters
\* The search strings: the empty string, "aB", which function 0 matches by
\* its name "Ab", and "Z", which function 1 matches by its resource "Ze".
SearchStrings == {<<>>, <<"a", "B">>, <<"Z">>}

\* The sets of relevant pages: frame 0 is of window 1, frame 1 of no window.
RelevantPageSets == SUBSET {0, 1}

Implementations == {"cpp", "js", "combined"}

\* The allocation tables of the filtered threads: no table, or a table of one
\* allocation with the given stack.
AllocationsTables(stacks) ==
  {Absent} \cup {Present([length |-> 1, time |-> Col(<<0>>), stack |-> Col(<<s>>),
                          weight |-> Col(<<1>>)]) : s \in stacks}

\* A thread of at most MaxStacks stacks with one frame per function (frames 0
\* and 1), MaxSamples samples, and allocation tables or none.
InitFilters ==
  /\ SyncIdle
  /\ pc = "filters"
  /\ \E n \in 0 .. MaxStacks :
       stackTable \in {st \in StackTables(n, {<<0, 1>>}) :
                         \A i \in 0 .. n - 1 : st.frame[i] \in Funcs}
  /\ defaultCategory = 0
  /\ samples \in {smp \in SamplesTables(MaxSamples, stackTable.length) : smp.weight = Absent}
  /\ jsAllocations \in AllocationsTables({IF stackTable.length = 0 THEN Null ELSE stackTable.length - 1})
  /\ nativeAllocations \in AllocationsTables({IF stackTable.length = 0 THEN Null ELSE 0})
  /\ BuilderIdle
  /\ PathsIdle
  /\ TimingsIdle
  /\ InvertIdle
  /\ CallsIdle

\* The thread the last call returned, the given thread before any call.
LastReturned == IF returned = <<>> THEN Thread ELSE returned[Len(returned)]

\* One step of searchStrings.reduce(filterThreadToSearchString, thread) in
\* filterThreadToSearchStrings: the next string of the list, any string, is
\* applied to the thread the step before returned.
FilterThreadToSearchString ==
  /\ pc \in {"filters", "filterThreadToSearchStrings"}
  /\ Len(args) < MaxSearchStrings
  /\ \E searchString \in SearchStrings :
       /\ args' = Append(args, searchString)
       /\ returned' = Append(returned, filterThreadToSearchString(LastReturned, searchString))
  /\ pc' = "filterThreadToSearchStrings"
  /\ UNCHANGED <<inputVars, syncVars, builderVars, pathVars, timingVars, invertVars>>

FilterThreadByTab ==
  /\ pc = "filters"
  /\ \E relevantPages \in RelevantPageSets :
       /\ args' = <<relevantPages>>
       /\ returned' = <<filterThreadByTab(Thread, relevantPages)>>
  /\ pc' = "filterThreadByTab"
  /\ UNCHANGED <<inputVars, syncVars, builderVars, pathVars, timingVars, invertVars>>

FilterThreadByImplementation ==
  /\ pc = "filters"
  /\ \E implementation \in Implementations :
       /\ args' = <<implementation>>
       /\ returned' = <<filterThreadByImplementation(Thread, implementation, defaultCategory)>>
  /\ pc' = "filterThreadByImplementation"
  /\ UNCHANGED <<inputVars, syncVars, builderVars, pathVars, timingVars, invertVars>>

NextFilters == FilterThreadToSearchString \/ FilterThreadByTab \/ FilterThreadByImplementation

SpecFilters == InitFilters /\ [][NextFilters]_vars

\* ------------------------------------------- claims on the thread filters
\* The texts a search string is looked for in: the name of the function, its
\* file name and the name of its resource, where it has them.
FuncTexts(func) ==
  {getCharacters(stringTable[funcTable.name[func]])}
  \cup (IF funcTable.fileName[func] = Null THEN {}
        ELSE {getCharacters(stringTable[funcTable.fileName[func]])})
  \cup (IF funcTable.resource[func] \in DOMAIN resourceTable.name
          THEN {getCharacters(stringTable[resourceTable.name[funcTable.resource[func]]])}
          ELSE {})

\* Stack s of the given thread, or one of its ancestors, has a function one of
\* whose texts contains the search string, whatever the case of the letters.
StackHasText(s, searchString) ==
  \E t \in StackChain(s) : \E text \in FuncTexts(frameTable.func[stackTable.frame[t]]) :
     includes(toLowerCase(text), toLowerCase(searchString))

\* The lists that are permutations of a list.
PermutationsOf(list) ==
  {[i \in 1 .. Len(list) |-> list[p[i]]] :
     p \in {q \in [1 .. Len(list) -> 1 .. Len(list)] :
              \A i, j \in 1 .. Len(list) : q[i] = q[j] => i = j}}

\* C11: filtering by the search string the thread was just filtered by
\* returns a thread with the same stack table and the same stack columns of
\* the samples, jsAllocations and nativeAllocations.
C11_SearchStringIdempotent ==
  pc = "filterThreadToSearchStrings" =>
    \A k \in 2 .. Len(returned) :
      args[k] = args[k - 1] =>
        /\ returned[k].stackTable = returned[k - 1].stackTable
        /\ returned[k].samples.stack = returned[k - 1].samples.stack
        /\ returned[k].jsAllocations = returned[k - 1].jsAllocations
        /\ returned[k].nativeAllocations = returned[k - 1].nativeAllocations

\* The same non-empty string was applied twice to a thread with allocation
\* tables; the first application dropped a sample and kept a sample whose
\* stack has a prefix.
C11_Witness ==
  /\ pc = "filterThreadToSearchStrings"
  /\ Len(args) = 2
  /\ args[1] = args[2]
  /\ args[1] # <<>>
  /\ jsAllocations # Absent
  /\ nativeAllocations # Absent
  /\ \E i, j \in SampleIndexes :
       /\ samples.stack[i] # Null
       /\ returned[1].samples.stack[i] = Null
       /\ returned[1].samples.stack[j] # Null
       /\ stackTable.prefix[returned[1].samples.stack[j]] # Null

\* C12: after the strings of a list were applied, a sample has its stack if
\* and only if it had one and, for every string of the list, the stack or one
\* of its ancestors has a function whose name, file name or resource name
\* contains the string in any case; and every permutation of the list gives
\* the same thread.
C12_SearchStringsAnd ==
  pc = "filterThreadToSearchStrings" =>
    /\ LastReturned.stackTable = stackTable
    /\ \A i \in SampleIndexes :
         LastReturned.samples.stack[i] =
           IF /\ samples.stack[i] # Null
              /\ \A k \in 1 .. Len(args) : StackHasText(samples.stack[i], args[k])
             THEN samples.stack[i] ELSE Null
    /\ \A list \in PermutationsOf(args) : filterThreadToSearchStrings(Thread, list) = LastReturned

\* Two different non-empty strings: a sample that has both, a sample that has
\* the first only and a sample that has the second only.
C12_Witness ==
  /\ pc = "filterThreadToSearchStrings"
  /\ Len(args) = 2
  /\ args[1] # args[2]
  /\ args[1] # <<>> /\ args[2] # <<>>
  /\ \E i, j, k \in SampleIndexes :
       /\ returned[2].samples.stack[i] # Null
       /\ returned[1].samples.stack[j] # Null /\ returned[2].samples.stack[j] = Null
       /\ samples.stack[k] # Null /\ returned[1].samples.stack[k] = Null
       /\ StackHasText(samples.stack[k], args[2])

\* C13: with a non-empty set of relevant pages a sample has its stack after
\* filterThreadByTab if and only if it had one and the stack or one of its
\* ancestors has a frame whose innerWindowID is positive and in the set.
C13_TabKeepsRelevantStacks ==
  (pc = "filterThreadByTab" /\ args[1] # {}) =>
    /\ returned[1].stackTable = stackTable
    /\ \A i \in SampleIndexes :
         returned[1].samples.stack[i] =
           IF /\ samples.stack[i] # Null
              /\ \E t \in StackChain(samples.stack[i]) :
                   /\ frameTable.innerWindowID[stackTable.frame[t]] > 0
                   /\ frameTable.innerWindowID[stackTable.frame[t]] \in args[1]
             THEN samples.stack[i] ELSE Null

\* Window 0 is in the set: a sample whose stack has a frame of window 0 keeps
\* it because an ancestor is of a relevant window, another one, all of whose
\* frames are of window 0, loses it.
C13_Witness ==
  /\ pc = "filterThreadByTab"
  /\ 0 \in args[1]
  /\ \E i, j \in SampleIndexes :
       /\ samples.stack[i] # Null
       /\ frameTable.innerWindowID[stackTable.frame[samples.stack[i]]] = 0
       /\ returned[1].samples.stack[i] = samples.stack[i]
       /\ samples.stack[j] # Null
       /\ \A t \in StackChain(samples.stack[j]) : frameTable.innerWindowID[stackTable.frame[t]] = 0
       /\ returned[1].samples.stack[j] = Null

\* The frames of a sequence whose function passes the filter of an implementation.
KeptFrames(frames, implementation) ==
  LET passes(frame) == implementationFilter(implementation, frameTable.func[frame])
  IN SelectSeq(frames, passes)

\* C14: after filterThreadByImplementation with 'cpp' or 'js' the frames of
\* the stack of a sample, from the root down, are those it had whose function
\* passes the filter, in the same order; the sample has no stack exactly when
\* none passes.
C14_ImplementationSplicesFrames ==
  (pc = "filterThreadByImplementation" /\ args[1] \in {"cpp", "js"}) =>
    \A i \in SampleIndexes :
      LET kept == KeptFrames(RootToLeafFrames(stackTable, samples.stack[i]), args[1]) IN
      SamplePath(returned[1], i) = IF kept = <<>> THEN Absent ELSE Present(kept)

\* A sample of three frames lost the middle one and kept the other two, and
\* a sample of two frames lost its leaf.
C14_Witness ==
  /\ pc = "filterThreadByImplementation"
  /\ args[1] \in {"cpp", "js"}
  /\ \E i, j \in SampleIndexes :
       /\ Len(RootToLeafFrames(stackTable, samples.stack[i])) = 3
       /\ SamplePath(returned[1], i) =
            Present(<<RootToLeafFrames(stackTable, samples.stack[i])[1],
                      RootToLeafFrames(stackTable, samples.stack[i])[3]>>)
       /\ Len(RootToLeafFrames(stackTable, samples.stack[j])) = 2
       /\ SamplePath(returned[1], j) = Present(<<RootToLeafFrames(stackTable, samples.stack[j])[1]>>)

\* ------------------------------------------------- the filters of tables
\* Array.prototype.slice(begin, end) for 0 <= begin <= end <= length.
slice(col, begin, end) == [i \in 0 .. end - begin - 1 |-> col[begin + i]]

\* bisectionLeft(array, x, low, high) of utils/bisect: the first index from
\* low on whose entry is not below x, by bisection of an ascending array.
RECURSIVE bisectionLeft(_, _, _, _)
bisectionLeft(array, x, low, high) ==
  IF low < high
    THEN LET mid == (low + high) \div 2 IN
         IF array[mid] < x THEN bisectionLeft(array, x, mid + 1, high)
         ELSE bisectionLeft(array, x, low, mid)
    ELSE low

\* getSampleIndexRangeForSelection keeping the samples at rangeEnd.
getSampleIndexRangeForSelectionClosed(table, rangeStart, rangeEnd) ==
  LET sampleStart == bisectionLeft(table.time, rangeStart, 0, table.length)
      sampleEnd == bisectionLeft(table.time, rangeEnd + 1, sampleStart, table.length)
  IN <<sampleStart, sampleEnd>>

getSampleIndexRangeForSelection(table, rangeStart, rangeEnd) ==
  LET sampleStart == bisectionLeft(table.time, rangeStart, 0, table.length)
      sampleEnd == bisectionLeft(table.time, rangeEnd, sampleStart, table.length)
  IN <<sampleStart, sampleEnd>>

\* filterThreadSamplesToRange: the slice of an allocation table, with the
\* memoryAddress and threadId columns where the table has them.
sliceAllocations(allocations, rangeStart, rangeEnd) ==
  IF allocations = Absent THEN Absent
  ELSE LET table == ValueOf(allocations)
           range == getSampleIndexRangeForSelection(table, rangeStart, rangeEnd)
           sliced == [length |-> range[2] - range[1],
                      time |-> slice(table.time, range[1], range[2]),
                      weight |-> slice(table.weight, range[1], range[2]),
                      stack |-> slice(table.stack, range[1], range[2])]
       IN IF "memoryAddress" \in DOMAIN table
            THEN Present(sliced @@ [memoryAddress |-> slice(table.memoryAddress, range[1], range[2]),
                                    threadId |-> slice(table.threadId, range[1], range[2])])
            ELSE Present(sliced)

\* filterThreadSamplesToRange on a samples table without the optional columns
\* eventDelay, responsiveness and threadCPUDelta.
filterThreadSamplesToRange(thread, rangeStart, rangeEnd) ==
  LET range == getSampleIndexRangeForSelection(thread.samples, rangeStart, rangeEnd)
      beginSampleIndex == range[1]
      endSampleIndex == range[2]
      newSamples ==
        [length |-> endSampleIndex - beginSampleIndex,
         time |-> slice(thread.samples.time, beginSampleIndex, endSampleIndex),
         weight |-> IF thread.samples.weight # Absent
                      THEN Present(slice(ValueOf(thread.samples.weight), beginSampleIndex, endSampleIndex))
                      ELSE Absent,
         stack |-> slice(thread.samples.stack, beginSampleIndex, endSampleIndex)]
  IN [stackTable |-> thread.stackTable,
      samples |-> newSamples,
      jsAllocations |-> sliceAllocations(thread.jsAllocations, rangeStart, rangeEnd),
      nativeAllocations |-> sliceAllocations(thread.nativeAllocations, rangeStart, rangeEnd)]

\* filterCounterToRange for one sample group: count[0] = 0 and number[0] = 0
\* are writes to the slices, which grow by one entry when they are empty.
filterSampleGroupToRange(sampleGroup, rangeStart, rangeEnd) ==
  LET table == sampleGroup.samples
      range == getSampleIndexRangeForSelection(table, rangeStart, rangeEnd)
      sBegin == IF range[1] > 0 THEN range[1] - 1 ELSE range[1]
      sEnd == IF range[2] < table.length THEN range[2] + 1 ELSE range[2]
      count == slice(table.count, sBegin, sEnd)
      number == slice(table.number, sBegin, sEnd)
  IN [sampleGroup EXCEPT !.samples =
        [time |-> slice(table.time, sBegin, sEnd),
         number |-> IF sBegin = 0 THEN SetAt(number, 0, 0) ELSE number,
         count |-> IF sBegin = 0 THEN SetAt(count, 0, 0) ELSE count,
         length |-> sEnd - sBegin]]

filterCounterToRange(counter, rangeStart, rangeEnd) ==
  [counter EXCEPT !.sampleGroups =
     [g \in DOMAIN counter.sampleGroups |->
        filterSampleGroupToRange(counter.sampleGroups[g], rangeStart, rangeEnd)]]

\* The events of a native allocations table from event i on that a test of
\* the weight (a function of the weights) keeps, pushed to the new table.
RECURSIVE pushAllocations(_, _, _, _)
pushAllocations(nativeAllocationsTable, keeps, i, newNativeAllocations) ==
  IF i >= nativeAllocationsTable.length THEN newNativeAllocations
  ELSE LET weight == nativeAllocationsTable.weight[i]
           n == newNativeAllocations.length
           pushed == [newNativeAllocations EXCEPT
                        !.time = SetAt(@, n, nativeAllocationsTable.time[i]),
                        !.stack = SetAt(@, n, nativeAllocationsTable.stack[i]),
                        !.weight = SetAt(@, n, weight),
                        !.length = n + 1]
           balanced == IF "memoryAddress" \in DOMAIN nativeAllocationsTable
                         THEN [pushed EXCEPT
                                 !.memoryAddress = SetAt(@, n, nativeAllocationsTable.memoryAddress[i]),
                                 !.threadId = SetAt(@, n, nativeAllocationsTable.threadId[i])]
                         ELSE pushed
       IN pushAllocations(nativeAllocationsTable, keeps, i + 1,
                          IF keeps[weight] THEN balanced ELSE newNativeAllocations)

\* getEmptyBalancedNativeAllocationsTable for a table with memory addresses,
\* getEmptyUnbalancedNativeAllocationsTable for one without.
getEmptyNativeAllocationsTable(nativeAllocationsTable) ==
  LET unbalanced == [length |-> 0, time |-> EmptyCol, stack |-> EmptyCol, weight |-> EmptyCol]
  IN IF "memoryAddress" \in DOMAIN nativeAllocationsTable
       THEN unbalanced @@ [memoryAddress |-> EmptyCol, threadId |-> EmptyCol]
       ELSE unbalanced

\* filterToAllocations keeping the events of weight 0 too.
filterToAllocationsNotNegative(nativeAllocationsTable) ==
  LET keeps == [weight \in Int |-> weight >= 0]
  IN pushAllocations(nativeAllocationsTable, keeps, 0,
                     getEmptyNativeAllocationsTable(nativeAllocationsTable))

filterToAllocations(nativeAllocationsTable) ==
  LET keeps == [weight \in Int |-> weight > 0]
  IN pushAllocations(nativeAllocationsTable, keeps, 0,
                     getEmptyNativeAllocationsTable(nativeAllocationsTable))

filterToDeallocationsSites(nativeAllocationsTable) ==
  LET keeps == [weight \in Int |-> weight < 0]
  IN pushAllocations(nativeAllocationsTable, keeps, 0,
                     getEmptyNativeAllocationsTable(nativeAllocationsTable))

\* ------------------------------- specification: the filters of tables
\* The ascending time columns of n entries, and the bounds of a range.
TimeCols(n) ==
  {t \in [0 .. n - 1 -> 0 .. MaxTime] : \A i \in 0 .. n - 2 : t[i] <= t[i + 1]}
RangeBounds == 0 .. MaxTime + 1

\* The samples tables of the range filter: ascending times, stacks of a table
\* of one stack, and weights or none.
TimedSamplesTables ==
  UNION {{[length |-> n, time |-> t, stack |-> s, weight |-> w] :
            t \in TimeCols(n), s \in [0 .. n - 1 -> {Null, 0}], w \in WeightCols(n)} :
         n \in 0 .. MaxSamples}

\* The allocation tables of the range filter: a table of two allocations, the
\* native ones with or without memory addresses, or no table.
TimedJsAllocations ==
  {Absent, Present([length |-> 2, time |-> Col(<<0, MaxTime>>), weight |-> Col(<<1, 2>>),
                    stack |-> Col(<<Null, 0>>)])}
TimedNativeAllocations ==
  {Absent,
   Present([length |-> 2, time |-> Col(<<1, 1>>), weight |-> Col(<<3, -3>>),
            stack |-> Col(<<0, Null>>)]),
   Present([length |-> 2, time |-> Col(<<0, 1>>), weight |-> Col(<<4, -4>>),
            stack |-> Col(<<0, 0>>), memoryAddress |-> Col(<<16, 16>>),
            threadId |-> Col(<<7, 8>>)])}

\* The counters: one sample group whose counts and numbers are not zero.
Counters ==
  UNION {{[name |-> "malloc",
           sampleGroups |-> <<[id |-> 0,
                               samples |-> [length |-> n, time |-> t,
                                            number |-> [i \in 0 .. n - 1 |-> 10 + i],
                                            count |-> [i \in 0 .. n - 1 |-> 1 + i]]]>>] :
            t \in TimeCols(n)} : n \in 0 .. MaxSamples}

\* The native allocation tables of the allocation filters: events of positive,
\* negative and zero weight, with or without memory addresses.
WeighedNativeAllocations ==
  UNION {LET unbalanced(w) == [length |-> n, time |-> [i \in 0 .. n - 1 |-> i],
                               stack |-> [i \in 0 .. n - 1 |-> IF i % 2 = 0 THEN 0 ELSE Null],
                               weight |-> w]
         IN {unbalanced(w) : w \in [0 .. n - 1 -> {-1, 0, 1}]}
            \cup {unbalanced(w) @@ [memoryAddress |-> [i \in 0 .. n - 1 |-> 16 + i],
                                    threadId |-> [i \in 0 .. n - 1 |-> 7]] :
                    w \in [0 .. n - 1 -> {-1, 0, 1}]} :
         n \in 0 .. MaxSamples}

\* The tables one of the filters is called with.
InitTables ==
  /\ SyncIdle
  /\ stackTable \in {st \in StackTables(1, {<<0, 1>>}) : st.frame[0] = 0}
  /\ defaultCategory = 0
  /\ BuilderIdle
  /\ PathsIdle
  /\ TimingsIdle
  /\ InvertIdle
  /\ returned = <<>>
  /\ \/ /\ pc = "filterThreadSamplesToRange"
        /\ samples \in TimedSamplesTables
        /\ jsAllocations \in TimedJsAllocations
        /\ nativeAllocations \in TimedNativeAllocations
        /\ args = <<>>
     \/ /\ pc = "filterCounterToRange"
        /\ samples = NoSamples
        /\ NoAllocations
        /\ \E counter \in Counters : args = <<counter>>
     \/ /\ pc = "filterToAllocations"
        /\ samples = NoSamples
        /\ jsAllocations = Absent
        /\ \E table \in WeighedNativeAllocations : nativeAllocations = Present(table)
        /\ args = <<>>

FilterThreadSamplesToRange ==
  /\ pc = "filterThreadSamplesToRange"
  /\ returned = <<>>
  /\ \E rangeStart \in RangeBounds, rangeEnd \in RangeBounds :
       /\ args' = <<rangeStart, rangeEnd>>
       /\ returned' = <<filterThreadSamplesToRange(Thread, rangeStart, rangeEnd)>>
  /\ UNCHANGED <<pc, inputVars, syncVars, builderVars, pathVars, timingVars, invertVars>>

FilterCounterToRange ==
  /\ pc = "filterCounterToRange"
  /\ returned = <<>>
  /\ \E rangeStart \in RangeBounds, rangeEnd \in RangeBounds :
       /\ args' = <<args[1], rangeStart, rangeEnd>>
       /\ returned' = <<filterCounterToRange(args[1], rangeStart, rangeEnd)>>
  /\ UNCHANGED <<pc, inputVars, syncVars, builderVars, pathVars, timingVars, invertVars>>

\* The two allocation filters are called with the same table, in any order;
\* args holds the names of the filters called, returned what they returned.
FilterToAllocations ==
  /\ pc = "filterToAllocations"
  /\ \A k \in 1 .. Len(args) : args[k] # "filterToAllocations"
  /\ args' = Append(args, "filterToAllocations")
  /\ returned' = Append(returned, filterToAllocations(ValueOf(nativeAllocations)))
  /\ UNCHANGED <<pc, inputVars, syncVars, builderVars, pathVars, timingVars, invertVars>>

FilterToDeallocationsSites ==
  /\ pc = "filterToAllocations"
  /\ \A k \in 1 .. Len(args) : args[k] # "filterToDeallocationsSites"
  /\ args' = Append(args, "filterToDeallocationsSites")
  /\ returned' = Append(returned, filterToDeallocationsSites(ValueOf(nativeAllocations)))
  /\ UNCHANGED <<pc, inputVars, syncVars, builderVars, pathVars, timingVars, invertVars>>

NextTables ==
  \/ FilterThreadSamplesToRange
  \/ FilterCounterToRange
  \/ FilterToAllocations
  \/ FilterToDeallocationsSites

SpecTables == InitTables /\ [][NextTables]_vars

\* ---------------------------------------- claims on the filters of tables
\* The entries of a time column before a time.
EntriesBefore(timeCol, time) == {i \in DOMAIN timeCol : timeCol[i] < time}

\* C15: filterThreadSamplesToRange returns the samples with
\* rangeStart <= time < rangeEnd in their order: length is their number, and
\* time, stack and weight are the entries of the same index interval.
C15_SamplesInHalfOpenRange ==
  (pc = "filterThreadSamplesToRange" /\ returned # <<>>) =>
    LET rangeStart == args[1]
        rangeEnd == args[2]
        new == returned[1].samples
        kept == {i \in SampleIndexes : rangeStart <= samples.time[i] /\ samples.time[i] < rangeEnd}
        begin == Cardinality(EntriesBefore(samples.time, rangeStart))
    IN /\ new.length = Cardinality(kept)
       /\ DOMAIN new.time = 0 .. new.length - 1
       /\ DOMAIN new.stack = 0 .. new.length - 1
       /\ (new.weight = Absent) <=> (samples.weight = Absent)
       /\ new.weight # Absent => DOMAIN ValueOf(new.weight) = 0 .. new.length - 1
       /\ \A k \in 0 .. new.length - 1 :
            /\ begin + k \in kept
            /\ new.time[k] = samples.time[begin + k]
            /\ new.stack[k] = samples.stack[begin + k]
            /\ new.weight # Absent => ValueOf(new.weight)[k] = ValueOf(samples.weight)[begin + k]

\* A weighted sample before rangeStart, one at rangeStart, which is kept, and
\* one at rangeEnd, which is not.
C15_Witness ==
  /\ pc = "filterThreadSamplesToRange"
  /\ returned # <<>>
  /\ samples.weight # Absent
  /\ \E i, j, k \in SampleIndexes :
       /\ samples.time[i] < args[1]
       /\ samples.time[j] = args[1]
       /\ samples.time[k] = args[2]
       /\ returned[1].samples.length = 1
       /\ returned[1].samples.time[0] = samples.time[j]
       /\ ValueOf(returned[1].samples.weight)[0] = ValueOf(samples.weight)[j]

\* C16: for every sample group, the empty one included, filterCounterToRange
\* returns time, count and number columns of `length` entries: the samples in
\* the range, the one before them and the one after them where there are
\* such, with count[0] and number[0] zero exactly when the first sample of
\* the group is the first of them.
C16_CounterColumnsOfEqualLength ==
  (pc = "filterCounterToRange" /\ returned # <<>>) =>
    LET table == args[1].sampleGroups[1].samples
        new == returned[1].sampleGroups[1].samples
        lo == Cardinality(EntriesBefore(table.time, args[2]))
        hi == IF Cardinality(EntriesBefore(table.time, args[3])) > lo
                THEN Cardinality(EntriesBefore(table.time, args[3])) ELSE lo
        first == IF lo > 0 THEN lo - 1 ELSE 0
        last == IF hi < table.length THEN hi + 1 ELSE hi
    IN /\ new.length = last - first
       /\ DOMAIN new.time = 0 .. new.length - 1
       /\ DOMAIN new.count = 0 .. new.length - 1
       /\ DOMAIN new.number = 0 .. new.length - 1
       /\ \A k \in 0 .. new.length - 1 :
            /\ new.time[k] = table.time[first + k]
            /\ new.count[k] = IF first + k = 0 THEN 0 ELSE table.count[first + k]
            /\ new.number[k] = IF first + k = 0 THEN 0 ELSE table.number[first + k]

\* What the allocation filter of a name returned.
ReturnedBy(name) == returned[CHOOSE k \in 1 .. Len(args) : args[k] = name]

\* A table holds the events of a set, in their order, with the columns of
\* the given table.
HoldsEvents(new, table, events) ==
  /\ new.length = Cardinality(events)
  /\ DOMAIN new = DOMAIN table
  /\ \A field \in DOMAIN table \ {"length"} :
       /\ DOMAIN new[field] = 0 .. new.length - 1
       /\ \A i \in events :
            new[field][Cardinality({j \in events : j < i})] = table[field][i]

\* The two allocation filters were called with the same table.
BothAllocationFiltersReturned == pc = "filterToAllocations" /\ Len(returned) = 2

\* C20 as stated: filterToAllocations returns the events of positive weight
\* and filterToDeallocationsSites those of negative weight, in their order and
\* with their columns, and every event is in exactly one of the two results.
C20_EveryEventInOneResult ==
  BothAllocationFiltersReturned =>
    LET table == ValueOf(nativeAllocations)
        events == 0 .. table.length - 1
    IN /\ HoldsEvents(ReturnedBy("filterToAllocations"), table, {i \in events : table.weight[i] > 0})
       /\ HoldsEvents(ReturnedBy("filterToDeallocationsSites"), table,
                      {i \in events : table.weight[i] < 0})
       /\ ReturnedBy("filterToAllocations").length
            + ReturnedBy("filterToDeallocationsSites").length = table.length

\* C20 amended: filterToAllocations returns the events of positive weight and
\* filterToDeallocationsSites those of negative weight, in their order and
\* with their columns; every event of a weight other than 0 is in exactly one
\* of the two results, and an event of weight 0 is in neither.
C20_EventsBySignOfWeight ==
  BothAllocationFiltersReturned =>
    LET table == ValueOf(nativeAllocations)
        events == 0 .. table.length - 1
    IN /\ HoldsEvents(ReturnedBy("filterToAllocations"), table, {i \in events : table.weight[i] > 0})
       /\ HoldsEvents(ReturnedBy("filterToDeallocationsSites"), table,
                      {i \in events : table.weight[i] < 0})
       /\ ReturnedBy("filterToAllocations").length
            + ReturnedBy("filterToDeallocationsSites").length
          = Cardinality({i \in events : table.weight[i] # 0})

\* A table with memory addresses and events of positive, negative and zero
\* weight, the positive one after the others.
C20_Witness ==
  /\ BothAllocationFiltersReturned
  /\ "memoryAddress" \in DOMAIN ValueOf(nativeAllocations)
  /\ ValueOf(nativeAllocations).length = 3
  /\ ValueOf(nativeAllocations).weight[0] < 0
  /\ ValueOf(nativeAllocations).weight[1] = 0
  /\ ValueOf(nativeAllocations).weight[2] > 0
  /\ ReturnedBy("filterToAllocations").time[0] = 2

\* ------------------------------------------- the samples and the call tree
getSampleIndexToCallNodeIndex(stacks, map) ==
  [i \in DOMAIN stacks |-> IF stacks[i] = Null THEN Null ELSE map[stacks[i]]]

getSampleCategories(smp, st) ==
  [i \in DOMAIN smp.stack |-> IF smp.stack[i] # Null THEN st.category[smp.stack[i]] ELSE Null]

\* getSamplesSelectedStates: the loop that fills selectedCallNodeAtDepth with
\* the selected call node and its ancestors.
RECURSIVE fillSelectedCallNodeAtDepth(_, _, _, _)
fillSelectedCallNodeAtDepth(t, fromCallNode, depth, selectedCallNodeAtDepth) ==
  IF depth >= 0 /\ fromCallNode # Null
    THEN fillSelectedCallNodeAtDepth(t, At(t.prefix, fromCallNode), depth - 1,
                                     SetAt(selectedCallNodeAtDepth, depth, fromCallNode))
    ELSE selectedCallNodeAtDepth

\* The ancestor of a call node at a depth not below its own.
RECURSIVE walkToDepth(_, _, _, _)
walkToDepth(t, fromCallNode, depth, toDepth) ==
  IF depth > toDepth THEN walkToDepth(t, t.prefix[fromCallNode], depth - 1, toDepth)
  ELSE fromCallNode

\* orderToSelected comparing the call node with the selected call node's
\* ancestor of its depth, without the walk to their common ancestor.
orderToSelectedByIndex(t, fromCallNode, depth, selectedCallNodeAtDepth) ==
  IF fromCallNode <= selectedCallNodeAtDepth[depth]
    THEN "UNSELECTED_ORDERED_BEFORE_SELECTED"
    ELSE "UNSELECTED_ORDERED_AFTER_SELECTED"

\* getSelectedStateFromCallNode: the last loop, which walks to the common
\* ancestor with the selected call node and compares the two children.
RECURSIVE orderToSelected(_, _, _, _)
orderToSelected(t, fromCallNode, depth, selectedCallNodeAtDepth) ==
  LET parent == t.prefix[fromCallNode] IN
  IF parent = -1 \/ parent = At(selectedCallNodeAtDepth, depth - 1)
    THEN IF fromCallNode <= selectedCallNodeAtDepth[depth]
           THEN "UNSELECTED_ORDERED_BEFORE_SELECTED"
           ELSE "UNSELECTED_ORDERED_AFTER_SELECTED"
    ELSE orderToSelected(t, parent, depth - 1, selectedCallNodeAtDepth)

\* getSelectedStateFromCallNode selecting the samples of the same depth only.
getSelectedStateFromCallNodeWithoutWalk(t, callNode, activeTabFilteredCallNode, selectedCallNodeIndex, selectedCallNodeDepth, selectedCallNodeAtDepth) ==
  IF callNode = Null
    THEN IF activeTabFilteredCallNode = Null THEN "FILTERED_OUT_BY_ACTIVE_TAB"
         ELSE "FILTERED_OUT_BY_TRANSFORM"
  ELSE IF selectedCallNodeIndex = Null THEN "SELECTED"
  ELSE IF callNode = selectedCallNodeIndex THEN "SELECTED"
  ELSE "UNSELECTED_ORDERED_AFTER_SELECTED"

getSelectedStateFromCallNode(t, callNode, activeTabFilteredCallNode, selectedCallNodeIndex, selectedCallNodeDepth, selectedCallNodeAtDepth) ==
  IF callNode = Null
    THEN IF activeTabFilteredCallNode = Null THEN "FILTERED_OUT_BY_ACTIVE_TAB"
         ELSE "FILTERED_OUT_BY_TRANSFORM"
  ELSE IF selectedCallNodeIndex = Null THEN "SELECTED"
  ELSE LET depth == IF t.depth[callNode] > selectedCallNodeDepth
                      THEN selectedCallNodeDepth ELSE t.depth[callNode]
           atDepth == walkToDepth(t, callNode, t.depth[callNode], selectedCallNodeDepth)
       IN IF atDepth = selectedCallNodeIndex THEN "SELECTED"
          ELSE orderToSelected(t, atDepth, depth, selectedCallNodeAtDepth)

getSamplesSelectedStates(t, sampleCallNodes, activeTabFilteredCallNodes, selectedCallNodeIndex) ==
  LET selectedCallNodeDepth ==
        IF selectedCallNodeIndex = -1 \/ selectedCallNodeIndex = Null THEN 0
        ELSE t.depth[selectedCallNodeIndex]
      selectedCallNodeAtDepth ==
        fillSelectedCallNodeAtDepth(t, selectedCallNodeIndex, selectedCallNodeDepth, EmptyCol)
  IN [sampleIndex \in DOMAIN sampleCallNodes |->
        getSelectedStateFromCallNode(t, sampleCallNodes[sampleIndex],
                                     activeTabFilteredCallNodes[sampleIndex],
                                     selectedCallNodeIndex, selectedCallNodeDepth,
                                     selectedCallNodeAtDepth)]

\* compareCallNodes: the loop that walks two call nodes of one depth, which
\* are not the same, up to the children of their common parent.
RECURSIVE walkToSiblings(_, _, _)
walkToSiblings(t, callNodeA, callNodeB) ==
  IF t.prefix[callNodeA] = t.prefix[callNodeB] THEN callNodeA - callNodeB
  ELSE walkToSiblings(t, t.prefix[callNodeA], t.prefix[callNodeB])

\* compareCallNodes ordering the call nodes by their depth only.
compareCallNodesByDepth(t, callNodeA, callNodeB) == t.depth[callNodeA] - t.depth[callNodeB]

compareCallNodes(t, callNodeA, callNodeB) ==
  LET initialDepthA == t.depth[callNodeA]
      initialDepthB == t.depth[callNodeB]
      sameDepth == IF initialDepthA < initialDepthB THEN initialDepthA ELSE initialDepthB
      atDepthA == walkToDepth(t, callNodeA, initialDepthA, sameDepth)
      atDepthB == walkToDepth(t, callNodeB, initialDepthB, sameDepth)
  IN IF atDepthA = atDepthB THEN initialDepthA - initialDepthB
     ELSE walkToSiblings(t, atDepthA, atDepthB)

\* The comparator getTreeOrderComparator returns, as the table of its values.
getTreeOrderComparator(t, sampleCallNodes) ==
  [sampleA \in DOMAIN sampleCallNodes, sampleB \in DOMAIN sampleCallNodes |->
     LET callNodeA == sampleCallNodes[sampleA]
         callNodeB == sampleCallNodes[sampleB]
     IN IF callNodeA = Null THEN (IF callNodeB = Null THEN 0 ELSE 1)
        ELSE IF callNodeB = Null THEN -1
        ELSE compareCallNodes(t, callNodeA, callNodeB)]

\* findBestAncestorCallNode: the first loop, which pushes the ancestors of the
\* clicked call node that have the clicked category.  Absent when the whole
\* path has it, which makes the function return the clicked call node.
RECURSIVE pushSameCategoryAncestors(_, _, _, _)
pushSameCategoryAncestors(t, fromCallNode, clickedCategory, callNodesOnSameCategoryPath) ==
  LET parentCallNode == t.prefix[fromCallNode] IN
  IF parentCallNode = -1 THEN Absent
  ELSE IF t.category[parentCallNode] # clickedCategory THEN Present(callNodesOnSameCategoryPath)
  ELSE pushSameCategoryAncestors(t, parentCallNode, clickedCategory,
                                 Append(callNodesOnSameCategoryPath, parentCallNode))

\* limitSameCategoryPathToCommonAncestor: its loop from a call node of the
\* given depth.  b holds callNodesOnSameCategoryPath, leaf first, and the set
\* of handled call nodes.
RECURSIVE limitWalk(_, _, _, _, _, _)
limitWalk(t, b, fromCallNode, depth, walkUpToDepth, clickedDepth) ==
  IF depth < walkUpToDepth THEN b
  ELSE IF fromCallNode \in b.handledCallNodes THEN b
  ELSE LET handled == [b EXCEPT !.handledCallNodes = @ \cup {fromCallNode}] IN
       IF /\ depth <= clickedDepth
          /\ clickedDepth - depth + 1 <= Len(b.callNodesOnSameCategoryPath)
          /\ fromCallNode = b.callNodesOnSameCategoryPath[clickedDepth - depth + 1]
         THEN [handled EXCEPT !.callNodesOnSameCategoryPath = SubSeq(@, 1, clickedDepth - depth)]
         ELSE limitWalk(t, handled, t.prefix[fromCallNode], depth - 1, walkUpToDepth, clickedDepth)

\* limitSameCategoryPathToCommonAncestor never shortening the path.
limitSameCategoryPathToCommonAncestorNever(t, b, ofCallNode, clickedDepth) == b

limitSameCategoryPathToCommonAncestor(t, b, ofCallNode, clickedDepth) ==
  limitWalk(t, b, ofCallNode, t.depth[ofCallNode],
            clickedDepth - (Len(b.callNodesOnSameCategoryPath) - 1), clickedDepth)

\* The loop over the samples, from the given sample on.
RECURSIVE limitBySamples(_, _, _, _, _, _, _)
limitBySamples(t, b, sampleCallNodes, sampleCategories, clickedCategory, clickedDepth, sample) ==
  IF sample \notin DOMAIN sampleCallNodes THEN b
  ELSE limitBySamples(t,
         IF sampleCategories[sample] # clickedCategory /\ sampleCallNodes[sample] # Null
           THEN limitSameCategoryPathToCommonAncestor(t, b, sampleCallNodes[sample], clickedDepth)
           ELSE b,
         sampleCallNodes, sampleCategories, clickedCategory, clickedDepth, sample + 1)

\* findBestAncestorCallNode that does not look for an ancestor.
findBestAncestorCallNodeClicked(t, sampleCallNodes, sampleCategories, clickedCallNode, clickedCategory) ==
  clickedCallNode

findBestAncestorCallNode(t, sampleCallNodes, sampleCategories, clickedCallNode, clickedCategory) ==
  IF t.category[clickedCallNode] # clickedCategory THEN clickedCallNode
  ELSE LET pushed == pushSameCategoryAncestors(t, clickedCallNode, clickedCategory,
                                               <<clickedCallNode>>)
       IN IF pushed = Absent THEN clickedCallNode
          ELSE LET b == limitBySamples(t, [callNodesOnSameCategoryPath |-> ValueOf(pushed),
                                           handledCallNodes |-> {}],
                                       sampleCallNodes, sampleCategories, clickedCategory,
                                       t.depth[clickedCallNode], 0)
               IN IF Len(b.callNodesOnSameCategoryPath) > 0
                    THEN b.callNodesOnSameCategoryPath[Len(b.callNodesOnSameCategoryPath)]
                    ELSE clickedCallNode

\* ------------------- specification: the samples and the call tree
\* A thread of at most MaxTreeStacks stacks, its call node info, and its
\* samples.
InitSelection ==
  /\ SyncIdle
  /\ pc = "selection"
  /\ \E n \in 1 .. MaxTreeStacks :
       stackTable \in {st \in StackTables(n, {<<0, 1>>}) :
                         \A i \in 0 .. n - 1 : st.frame[i] \in Funcs}
  /\ defaultCategory = 0
  /\ BuilderDone
  /\ samples \in {smp \in SamplesTables(MaxSamples, stackTable.length) : smp.weight = Absent}
  /\ NoAllocations
  /\ PathsIdle
  /\ TimingsIdle
  /\ InvertIdle
  /\ CallsIdle

sampleCallNodes == getSampleIndexToCallNodeIndex(samples.stack, stackIndexToCallNodeIndex)
sampleCategories == getSampleCategories(samples, stackTable)

\* getSamplesSelectedStates for any selected call node or none.  The samples
\* without call node are all of the active tab or all out of it; the others
\* are of the active tab.
GetSamplesSelectedStates ==
  /\ pc = "selection"
  /\ \E selectedCallNodeIndex \in {Null} \cup 0 .. callNodeTable.length - 1,
        outOfActiveTab \in BOOLEAN :
       LET activeTabFilteredCallNodes ==
             [i \in DOMAIN sampleCallNodes |->
                IF sampleCallNodes[i] = Null /\ outOfActiveTab THEN Null ELSE 0]
       IN /\ args' = <<activeTabFilteredCallNodes, selectedCallNodeIndex>>
          /\ returned' = <<getSamplesSelectedStates(callNodeTable, sampleCallNodes,
                                                    activeTabFilteredCallNodes,
                                                    selectedCallNodeIndex)>>
  /\ pc' = "getSamplesSelectedStates"
  /\ UNCHANGED <<inputVars, syncVars, builderVars, pathVars, timingVars, invertVars>>

GetTreeOrderComparator ==
  /\ pc = "selection"
  /\ args' = <<>>
  /\ returned' = <<getTreeOrderComparator(callNodeTable, sampleCallNodes)>>
  /\ pc' = "getTreeOrderComparator"
  /\ UNCHANGED <<inputVars, syncVars, builderVars, pathVars, timingVars, invertVars>>

NextSelection == GetSamplesSelectedStates \/ GetTreeOrderComparator

SpecSelection == InitSelection /\ [][NextSelection]_vars

\* ----------------------- specification: the best ancestor call node
\* A thread of at most MaxTreeStacks stacks of two categories, its call node
\* info, and its samples.
InitBestAncestor ==
  /\ SyncIdle
  /\ pc = "bestAncestor"
  /\ \E n \in 1 .. MaxTreeStacks :
       stackTable \in {st \in StackTables(n, {<<0, 1>>, <<1, 1>>}) :
                         \A i \in 0 .. n - 1 : st.frame[i] \in Funcs}
  /\ defaultCategory = 0
  /\ BuilderDone
  /\ samples \in {smp \in SamplesTables(MaxSamples, stackTable.length) : smp.weight = Absent}
  /\ NoAllocations
  /\ PathsIdle
  /\ TimingsIdle
  /\ InvertIdle
  /\ CallsIdle

\* findBestAncestorCallNode for a clicked sample: its call node and its category.
FindBestAncestorCallNode ==
  /\ pc = "bestAncestor"
  /\ \E clicked \in DOMAIN sampleCallNodes :
       /\ sampleCallNodes[clicked] # Null
       /\ args' = <<sampleCallNodes[clicked], sampleCategories[clicked]>>
       /\ returned' = <<findBestAncestorCallNode(callNodeTable, sampleCallNodes, sampleCategories,
                                                 sampleCallNodes[clicked],
                                                 sampleCategories[clicked])>>
  /\ pc' = "findBestAncestorCallNode"
  /\ UNCHANGED <<inputVars, syncVars, builderVars, pathVars, timingVars, invertVars>>

NextBestAncestor == FindBestAncestorCallNode

SpecBestAncestor == InitBestAncestor /\ [][NextBestAncestor]_vars

\* ----------------------- claims on the samples and the call tree
\* The call node and its ancestors, by the prefix column of the call node table.
RECURSIVE SelfAndAncestors(_)
SelfAndAncestors(callNode) ==
  IF callNode = -1 THEN {}
  ELSE {callNode} \cup SelfAndAncestors(callNodeTable.prefix[callNode])

\* C17: getSamplesSelectedStates gives a sample SELECTED exactly when its call
\* node is not null and either no call node is selected or the selected call
\* node is the sample's call node or one of its ancestors; a sample without
\* call node is FILTERED_OUT_BY_ACTIVE_TAB when its active tab filtered call
\* node is null as well and FILTERED_OUT_BY_TRANSFORM otherwise.
C17_SelectedStates ==
  pc = "getSamplesSelectedStates" =>
    \A sampleIndex \in DOMAIN sampleCallNodes :
      LET callNode == sampleCallNodes[sampleIndex]
          state == returned[1][sampleIndex]
      IN /\ state = "SELECTED" <=>
              /\ callNode # Null
              /\ \/ args[2] = Null
                 \/ args[2] \in SelfAndAncestors(callNode)
         /\ callNode = Null =>
              state = IF args[1][sampleIndex] = Null THEN "FILTERED_OUT_BY_ACTIVE_TAB"
                      ELSE "FILTERED_OUT_BY_TRANSFORM"
         /\ callNode # Null =>
              state \in {"SELECTED", "UNSELECTED_ORDERED_BEFORE_SELECTED",
                         "UNSELECTED_ORDERED_AFTER_SELECTED"}

\* A call node is selected; one sample is of a descendant of it, one is not
\* under it, and one has no call node and is out of the active tab.
C17_Witness ==
  /\ pc = "getSamplesSelectedStates"
  /\ args[2] # Null
  /\ \E i, j, k \in DOMAIN sampleCallNodes :
       /\ sampleCallNodes[i] # Null
       /\ sampleCallNodes[i] # args[2]
       /\ returned[1][i] = "SELECTED"
       /\ returned[1][j] \in {"UNSELECTED_ORDERED_BEFORE_SELECTED",
                               "UNSELECTED_ORDERED_AFTER_SELECTED"}
       /\ returned[1][k] = "FILTERED_OUT_BY_ACTIVE_TAB"

Sign(number) == IF number < 0 THEN -1 ELSE IF number > 0 THEN 1 ELSE 0

\* C18: the comparator of getTreeOrderComparator is a strict weak ordering of
\* the sample indexes: a sample equals itself, swapping the arguments negates
\* the sign, "before" and "equal" are transitive; a sample without call node
\* is after every sample with a call node, two samples without call node are
\* equal, and two samples with call nodes are equal only when the call nodes
\* are the same.
C18_TreeOrderIsStrictWeakOrder ==
  pc = "getTreeOrderComparator" =>
    LET cmp == returned[1]
        S == DOMAIN sampleCallNodes
    IN /\ \A a \in S : cmp[a, a] = 0
       /\ \A a, b \in S : Sign(cmp[a, b]) = -Sign(cmp[b, a])
       /\ \A a, b, c \in S : cmp[a, b] < 0 /\ cmp[b, c] < 0 => cmp[a, c] < 0
       /\ \A a, b, c \in S : cmp[a, b] = 0 /\ cmp[b, c] = 0 => cmp[a, c] = 0
       /\ \A a, b \in S :
            /\ sampleCallNodes[a] = Null /\ sampleCallNodes[b] # Null => cmp[a, b] > 0
            /\ sampleCallNodes[a] = Null /\ sampleCallNodes[b] = Null => cmp[a, b] = 0
            /\ sampleCallNodes[a] # Null /\ sampleCallNodes[b] # Null /\ cmp[a, b] = 0
                 => sampleCallNodes[a] = sampleCallNodes[b]

\* Three samples in a row: a call node, then a child of it, then a call node
\* of a later subtree, which is not deeper than the child.
C18_Witness ==
  /\ pc = "getTreeOrderComparator"
  /\ \E a, b, c \in DOMAIN sampleCallNodes :
       /\ sampleCallNodes[a] # Null /\ sampleCallNodes[b] # Null /\ sampleCallNodes[c] # Null
       /\ callNodeTable.prefix[sampleCallNodes[b]] = sampleCallNodes[a]
       /\ sampleCallNodes[a] \notin SelfAndAncestors(sampleCallNodes[c])
       /\ callNodeTable.depth[sampleCallNodes[c]] < callNodeTable.depth[sampleCallNodes[b]]
       /\ returned[1][a, b] < 0
       /\ returned[1][b, c] < 0
       /\ returned[1][a, c] < 0

\* The call nodes on the path from the call node up to its ancestor (or self).
PathUpTo(callNode, ancestor) ==
  {n \in SelfAndAncestors(callNode) : callNodeTable.depth[n] >= callNodeTable.depth[ancestor]}

\* No sample of another category than the clicked one has the call node as
\* its call node or as an ancestor of its call node.
NoOtherCategoryUnder(callNode, clickedCategory) ==
  \A sampleIndex \in DOMAIN sampleCallNodes :
    sampleCallNodes[sampleIndex] # Null /\ sampleCategories[sampleIndex] # clickedCategory
      => callNode \notin SelfAndAncestors(sampleCallNodes[sampleIndex])

\* C19: findBestAncestorCallNode returns the clicked call node or one of its
\* ancestors; every call node on the path from the clicked one up to the
\* returned one has the clicked category; and when the returned call node is
\* not the clicked one, no sample with a call node and another category than
\* the clicked one is under the returned call node.
C19_BestAncestorOfClickedCategory ==
  pc = "findBestAncestorCallNode" =>
    LET clickedCallNode == args[1]
        clickedCategory == args[2]
        r == returned[1]
    IN /\ r \in SelfAndAncestors(clickedCallNode)
       /\ \A n \in PathUpTo(clickedCallNode, r) : callNodeTable.category[n] = clickedCategory
       /\ r # clickedCallNode => NoOtherCategoryUnder(r, clickedCategory)

\* C19, for the clicked call nodes of the clicked category: as above; for a
\* clicked call node of another category than the clicked one, the clicked
\* call node is returned.
C19_BestAncestorWhenCategoriesAgree ==
  pc = "findBestAncestorCallNode" =>
    LET clickedCallNode == args[1]
        clickedCategory == args[2]
        r == returned[1]
    IN /\ r \in SelfAndAncestors(clickedCallNode)
       /\ IF callNodeTable.category[clickedCallNode] = clickedCategory
            THEN \A n \in PathUpTo(clickedCallNode, r) :
                   callNodeTable.category[n] = clickedCategory
            ELSE r = clickedCallNode
       /\ r # clickedCallNode => NoOtherCategoryUnder(r, clickedCategory)

\* An ancestor of the clicked call node is returned, and a sample of another
\* category than the clicked one has a call node next to it, under the same
\* parent.
C19_Witness ==
  /\ pc = "findBestAncestorCallNode"
  /\ returned[1] # args[1]
  /\ \E sampleIndex \in DOMAIN sampleCallNodes :
       /\ sampleCallNodes[sampleIndex] # Null
       /\ sampleCategories[sampleIndex] # args[2]
       /\ sampleCallNodes[sampleIndex] # returned[1]
       /\ callNodeTable.prefix[sampleCallNodes[sampleIndex]] = callNodeTable.prefix[returned[1]]

\* ------------------------------------------------- the filters by memory
\* memoryAddressToAllocation is a function of the addresses that are set.
MapSet(map, key, value) == [k \in DOMAIN map \cup {key} |-> IF k = key THEN value ELSE map[k]]
MapDelete(map, key) == [k \in DOMAIN map \ {key} |-> map[k]]

\* filterToDeallocationsMemory: the first loop, from allocationIndex on.
\* b holds memoryAddressToAllocation and stackOfOriginalAllocation.
RECURSIVE matchDeallocations(_, _, _)
matchDeallocations(nativeAllocationsTable, b, allocationIndex) ==
  IF allocationIndex >= nativeAllocationsTable.length THEN b
  ELSE LET bytes == nativeAllocationsTable.weight[allocationIndex]
           memoryAddress == nativeAllocationsTable.memoryAddress[allocationIndex]
           next ==
             IF bytes >= 0
               THEN [memoryAddressToAllocation |->
                       MapSet(b.memoryAddressToAllocation, memoryAddress, allocationIndex),
                     stackOfOriginalAllocation |->
                       SetAt(b.stackOfOriginalAllocation, allocationIndex, Null)]
             ELSE IF memoryAddress \notin DOMAIN b.memoryAddressToAllocation
               THEN [b EXCEPT !.stackOfOriginalAllocation = SetAt(@, allocationIndex, Null)]
             ELSE [memoryAddressToAllocation |->
                     MapDelete(b.memoryAddressToAllocation, memoryAddress),
                   stackOfOriginalAllocation |->
                     SetAt(b.stackOfOriginalAllocation, allocationIndex,
                           b.memoryAddressToAllocation[memoryAddress])]
       IN matchDeallocations(nativeAllocationsTable, next, allocationIndex + 1)

\* filterToDeallocationsMemory: the second loop, from event i on.
RECURSIVE pushDeallocations(_, _, _, _)
pushDeallocations(nativeAllocationsTable, stackOfOriginalAllocation, i, newDeallocations) ==
  IF i >= nativeAllocationsTable.length THEN newDeallocations
  ELSE LET duration == nativeAllocationsTable.weight[i]
           originalStack == stackOfOriginalAllocation[i]
           n == newDeallocations.length
           pushed == [newDeallocations EXCEPT
                        !.time = SetAt(@, n, nativeAllocationsTable.time[i]),
                        !.stack = SetAt(@, n, originalStack),
                        !.weight = SetAt(@, n, duration),
                        !.memoryAddress = SetAt(@, n, nativeAllocationsTable.memoryAddress[i]),
                        !.threadId = SetAt(@, n, nativeAllocationsTable.threadId[i]),
                        !.length = n + 1]
       IN pushDeallocations(nativeAllocationsTable, stackOfOriginalAllocation, i + 1,
                            IF originalStack # Null THEN pushed ELSE newDeallocations)

filterToDeallocationsMemory(nativeAllocationsTable) ==
  LET b == matchDeallocations(nativeAllocationsTable,
                              [memoryAddressToAllocation |-> EmptyCol,
                               stackOfOriginalAllocation |-> EmptyCol], 0)
  IN pushDeallocations(nativeAllocationsTable, b.stackOfOriginalAllocation, 0,
                       getEmptyNativeAllocationsTable(nativeAllocationsTable))

\* filterToRetainedAllocations: the first loop, from allocationIndex on.
\* b holds memoryAddressToAllocation and retainedAllocation.
RECURSIVE matchAllocations(_, _, _)
matchAllocations(nativeAllocationsTable, b, allocationIndex) ==
  IF allocationIndex >= nativeAllocationsTable.length THEN b
  ELSE LET bytes == nativeAllocationsTable.weight[allocationIndex]
           memoryAddress == nativeAllocationsTable.memoryAddress[allocationIndex]
           notRetained == SetAt(b.retainedAllocation, allocationIndex, FALSE)
           next ==
             IF bytes >= 0
               THEN [memoryAddressToAllocation |->
                       MapSet(b.memoryAddressToAllocation, memoryAddress, allocationIndex),
                     retainedAllocation |-> SetAt(b.retainedAllocation, allocationIndex, TRUE)]
             ELSE IF memoryAddress \in DOMAIN b.memoryAddressToAllocation
               THEN [memoryAddressToAllocation |->
                       MapDelete(b.memoryAddressToAllocation, memoryAddress),
                     retainedAllocation |->
                       SetAt(notRetained, b.memoryAddressToAllocation[memoryAddress], FALSE)]
             ELSE [b EXCEPT !.retainedAllocation = notRetained]
       IN matchAllocations(nativeAllocationsTable, next, allocationIndex + 1)

\* filterToRetainedAllocations: the second loop, from event i on.
RECURSIVE pushRetained(_, _, _, _)
pushRetained(nativeAllocationsTable, retainedAllocation, i, newNativeAllocations) ==
  IF i >= nativeAllocationsTable.length THEN newNativeAllocations
  ELSE LET n == newNativeAllocations.length
           pushed == [newNativeAllocations EXCEPT
                        !.time = SetAt(@, n, nativeAllocationsTable.time[i]),
                        !.stack = SetAt(@, n, nativeAllocationsTable.stack[i]),
                        !.weight = SetAt(@, n, nativeAllocationsTable.weight[i]),
                        !.memoryAddress = SetAt(@, n, nativeAllocationsTable.memoryAddress[i]),
                        !.threadId = SetAt(@, n, nativeAllocationsTable.threadId[i]),
                        !.length = n + 1]
       IN pushRetained(nativeAllocationsTable, retainedAllocation, i + 1,
                       IF retainedAllocation[i] THEN pushed ELSE newNativeAllocations)

\* filterToRetainedAllocations that does not look for the deallocations.
filterToRetainedAllocationsUnmatched(nativeAllocationsTable) ==
  pushRetained(nativeAllocationsTable,
               [i \in 0 .. nativeAllocationsTable.length - 1 |->
                  nativeAllocationsTable.weight[i] >= 0],
               0, getEmptyNativeAllocationsTable(nativeAllocationsTable))

filterToRetainedAllocations(nativeAllocationsTable) ==
  LET b == matchAllocations(nativeAllocationsTable,
                            [memoryAddressToAllocation |-> EmptyCol,
                             retainedAllocation |-> EmptyCol], 0)
  IN pushRetained(nativeAllocationsTable, b.retainedAllocation, 0,
                  getEmptyNativeAllocationsTable(nativeAllocationsTable))

\* ------------------------------ specification: the filters by memory
\* A balanced native allocations table of n events, by its columns.
BalancedNativeAllocations(n, stacks, weights, addresses) ==
  [length |-> n, time |-> [i \in 0 .. n - 1 |-> i], stack |-> stacks, weight |-> weights,
   memoryAddress |-> addresses, threadId |-> [i \in 0 .. n - 1 |-> 7]]

\* The tables of at most MaxEvents events at two memory addresses, with the
\* stacks of a table of two stacks, or none.
InitMemory ==
  /\ SyncIdle
  /\ pc = "memory"
  /\ stackTable \in {st \in StackTables(2, {<<0, 1>>}) :
                     st.frame = Col(<<0, 1>>) /\ st.prefix[1] = 0}
  /\ defaultCategory = 0
  /\ BuilderIdle
  /\ PathsIdle
  /\ TimingsIdle
  /\ InvertIdle
  /\ CallsIdle
  /\ samples = NoSamples
  /\ jsAllocations = Absent
  /\ \E n \in 0 .. MaxEvents :
       \E stacks \in [0 .. n - 1 -> {Null, 0, 1}],
          weights \in [0 .. n - 1 -> {-1, 0, 1}],
          addresses \in [0 .. n - 1 -> {16, 32}] :
         nativeAllocations = Present(BalancedNativeAllocations(n, stacks, weights, addresses))

FilterToDeallocationsMemory ==
  /\ pc = "memory"
  /\ pc' = "filterToDeallocationsMemory"
  /\ returned' = <<filterToDeallocationsMemory(ValueOf(nativeAllocations))>>
  /\ UNCHANGED <<args, inputVars, syncVars, builderVars, pathVars, timingVars, invertVars>>

FilterToRetainedAllocations ==
  /\ pc = "memory"
  /\ pc' = "filterToRetainedAllocations"
  /\ returned' = <<filterToRetainedAllocations(ValueOf(nativeAllocations))>>
  /\ UNCHANGED <<args, inputVars, syncVars, builderVars, pathVars, timingVars, invertVars>>

NextMemory == FilterToDeallocationsMemory \/ FilterToRetainedAllocations

SpecMemory == InitMemory /\ [][NextMemory]_vars

\* ---------------------------------------- claims on the filters by memory
\* The events of the table, and the last event before event i at its address.
EventsOf(table) == 0 .. table.length - 1
SameAddressBefore(table, i) ==
  {j \in EventsOf(table) : j < i /\ table.memoryAddress[j] = table.memoryAddress[i]}
SameAddressAfter(table, i) ==
  {j \in EventsOf(table) : j > i /\ table.memoryAddress[j] = table.memoryAddress[i]}
Last(events) == CHOOSE j \in events : \A k \in events : k <= j
First(events) == CHOOSE j \in events : \A k \in events : j <= k

\* The deallocations that follow an allocation at their address which no
\* deallocation has matched before: the last event before them at the address
\* is an allocation (an event of a weight that is not negative).
MatchedDeallocations(table) ==
  {i \in EventsOf(table) :
     /\ table.weight[i] < 0
     /\ SameAddressBefore(table, i) # {}
     /\ table.weight[Last(SameAddressBefore(table, i))] >= 0}

\* C21: filterToDeallocationsMemory returns exactly the deallocations whose
\* address has an earlier allocation that no deallocation has matched yet, in
\* their order and with their time, weight, address and thread, and the stack
\* of each is the stack of that allocation in the stack column.
C21_DeallocationsWithStackOfAllocation ==
  pc = "filterToDeallocationsMemory" =>
    LET table == ValueOf(nativeAllocations)
        new == returned[1]
        events == MatchedDeallocations(table)
    IN /\ new.length = Cardinality(events)
       /\ \A i \in events :
            LET n == Cardinality({j \in events : j < i})
            IN /\ new.time[n] = table.time[i]
               /\ new.weight[n] = table.weight[i]
               /\ new.memoryAddress[n] = table.memoryAddress[i]
               /\ new.stack[n] = table.stack[Last(SameAddressBefore(table, i))]

\* The allocations that no deallocation follows while they are the last
\* allocation at their address: the next event at the address, if there is
\* one, is an allocation too.
RetainedAllocations(table) ==
  {i \in EventsOf(table) :
     /\ table.weight[i] >= 0
     /\ SameAddressAfter(table, i) # {}
          => table.weight[First(SameAddressAfter(table, i))] >= 0}

RECURSIVE spreadDelta(_, _, _, _, _)
spreadDelta(smp, eventDelays, delta, j, effectiveSubmissionIdx) ==
  IF j > effectiveSubmissionIdx THEN eventDelays
  ELSE spreadDelta(smp, [eventDelays EXCEPT ![j] = @ + delta],
                   IF j + 1 \in DOMAIN smp.time
                     THEN delta - (smp.time[j + 1] - smp.time[j]) ELSE Null,
                   j + 1, effectiveSubmissionIdx)

\* processEventDelays: the loop over the samples, from sample i on.  b holds
\* eventDelays, lastSubmission and lastSubmissionIdx.
RECURSIVE submissionLoop(_, _, _, _, _)
submissionLoop(smp, rawEventDelays, interval, b, i) ==
  IF i >= smp.length THEN b
  ELSE LET currentEventDelay == At(rawEventDelays, i)
           next == At(rawEventDelays, i + 1)
           nextEventDelay == IF next = Null THEN 0 ELSE next
           now == smp.time[i]
           sampleSinceBlockedEvents == currentEventDelay \div interval
           effectiveSubmission == now - currentEventDelay
           effectiveSubmissionIdx == i - sampleSinceBlockedEvents
           after ==
             IF currentEventDelay = Null THEN b
             ELSE IF currentEventDelay < nextEventDelay THEN b
             ELSE IF effectiveSubmissionIdx < 0
               THEN [b EXCEPT !.lastSubmission = now, !.lastSubmissionIdx = i]
             ELSE IF b.lastSubmissionIdx = effectiveSubmissionIdx
               THEN [b EXCEPT !.lastSubmission = effectiveSubmission,
                              !.lastSubmissionIdx = effectiveSubmissionIdx]
             ELSE [eventDelays |-> spreadDelta(smp, b.eventDelays, now - b.lastSubmission,
                                               b.lastSubmissionIdx + 1, effectiveSubmissionIdx),
                   lastSubmission |-> effectiveSubmission,
                   lastSubmissionIdx |-> effectiveSubmissionIdx]
       IN submissionLoop(smp, rawEventDelays, interval, after, i + 1)

\* The least and the greatest number of a set that is not empty.
Min(numbers) == CHOOSE n \in numbers : \A k \in numbers : n <= k
Max(numbers) == CHOOSE n \in numbers : \A k \in numbers : k <= n

\* processEventDelays after the test of samples.eventDelay.  Without a delay
\* that is not 0, minDelay stays Number.MAX_SAFE_INTEGER.
eventDelayInfo(smp, interval) ==
  LET b == submissionLoop(smp, ValueOf(smp.eventDelay), interval,
                          [eventDelays |-> [i \in 0 .. smp.length - 1 |-> 0],
                           lastSubmission |-> At(smp.time, 0),
                           lastSubmissionIdx |-> 0], 1)
      delays == {b.eventDelays[i] : i \in DOMAIN b.eventDelays} \ {0}
  IN [eventDelays |-> b.eventDelays,
      minDelay |-> IF delays = {} THEN "MAX_SAFE_INTEGER" ELSE Min(delays),
      maxDelay |-> IF delays = {} THEN 0 ELSE Max(delays \cup {0}),
      delayRange |-> IF delays = {} THEN "-MAX_SAFE_INTEGER"
                     ELSE Max(delays \cup {0}) - Min(delays)]

\* processEventDelays that takes a missing column for a column of nulls.
processEventDelaysOfMissingColumn(smp, interval) ==
  [threw |-> Absent,
   value |-> Present(eventDelayInfo(
               IF smp.eventDelay = Absent
                 THEN [smp EXCEPT !.eventDelay = Present([i \in 0 .. smp.length - 1 |-> Null])]
                 ELSE smp, interval))]

\* processEventDelays: what it throws, if it throws, and what it returns.
processEventDelays(smp, interval) ==
  IF smp.eventDelay = Absent
    THEN [threw |-> Present("processEventDelays step should not be called for older profiles"),
          value |-> Absent]
    ELSE [threw |-> Absent, value |-> Present(eventDelayInfo(smp, interval))]

\* ------------------------------------ specification: the event delays
\* The samples tables of at most MaxSamples samples with ascending times, with
\* an eventDelay column of delays and nulls or without one.
Intervals == {1, 2}
EventDelays == {Null} \cup 0 .. MaxTime

InitEventDelays ==
  /\ SyncIdle
  /\ pc = "eventDelays"
  /\ stackTable \in {st \in StackTables(1, {<<0, 1>>}) : st.frame[0] = 0}
  /\ defaultCategory = 0
  /\ BuilderIdle
  /\ PathsIdle
  /\ TimingsIdle
  /\ InvertIdle
  /\ CallsIdle
  /\ NoAllocations
  /\ \E n \in 0 .. MaxSamples :
       \E t \in TimeCols(n) :
         \E eventDelay \in {Absent} \cup {Present(d) : d \in [0 .. n - 1 -> EventDelays]} :
           samples = [length |-> n, time |-> t, stack |-> [i \in 0 .. n - 1 |-> 0],
                      weight |-> Absent, eventDelay |-> eventDelay]

ProcessEventDelays ==
  /\ pc = "eventDelays"
  /\ pc' = "processEventDelays"
  /\ \E interval \in Intervals :
       /\ args' = <<interval>>
       /\ returned' = <<processEventDelays(samples, interval)>>
  /\ UNCHANGED <<inputVars, syncVars, builderVars, pathVars, timingVars, invertVars>>

NextEventDelays == ProcessEventDelays

SpecEventDelays == InitEventDelays /\ [][NextEventDelays]_vars

\* ---------------------------------------- claims on the event delays
\* C23: processEventDelays of a samples table without eventDelay column does
\* not throw: it returns a result.
C23_MissingEventDelayIsRecoverable ==
  (pc = "processEventDelays" /\ samples.eventDelay = Absent) =>
    returned[1].threw = Absent /\ returned[1].value # Absent

\* C23, as the function is: processEventDelays throws exactly when the samples
\* table has no eventDelay column, and returns nothing then; with the column
\* it returns one delay for each sample.
C23_MissingEventDelayThrows ==
  pc = "processEventDelays" =>
    /\ returned[1].threw # Absent <=> samples.eventDelay = Absent
    /\ returned[1].value = Absent <=> samples.eventDelay = Absent
    /\ returned[1].value # Absent =>
         DOMAIN ValueOf(returned[1].value).eventDelays = 0 .. samples.length - 1

\* The function threw for a table of samples without the column.
C23_Witness ==
  /\ pc = "processEventDelays"
  /\ samples.length = MaxSamples
  /\ samples.eventDelay = Absent
  /\ returned[1].threw # Absent

\* ---------------------- claims on the selected states and the tree order
\* C24: getSamplesSelectedStates agrees with the order of compareCallNodes:
\* a sample with a call node that is not SELECTED while a call node is
\* selected is UNSELECTED_ORDERED_BEFORE_SELECTED exactly when compareCallNodes
\* of its call node and the selected one is negative, and
\* UNSELECTED_ORDERED_AFTER_SELECTED exactly when it is positive.
C24_SelectedStatesFollowTreeOrder ==
  (pc = "getSamplesSelectedStates" /\ args[2] # Null) =>
    \A sampleIndex \in DOMAIN sampleCallNodes :
      LET callNode == sampleCallNodes[sampleIndex]
          state == returned[1][sampleIndex]
      IN (callNode # Null /\ state # "SELECTED") =>
           /\ state = "UNSELECTED_ORDERED_BEFORE_SELECTED"
                <=> compareCallNodes(callNodeTable, callNode, args[2]) < 0
           /\ state = "UNSELECTED_ORDERED_AFTER_SELECTED"
                <=> compareCallNodes(callNodeTable, callNode, args[2]) > 0

\* The parent of the selected call node is ordered before it, and so is a
\* call node of a greater index than the selected one, which is a child of
\* an earlier root.
C24_Witness ==
  /\ pc = "getSamplesSelectedStates"
  /\ args[2] # Null
  /\ \E i, j \in DOMAIN sampleCallNodes :
       /\ sampleCallNodes[i] # Null
       /\ sampleCallNodes[i] = callNodeTable.prefix[args[2]]
       /\ returned[1][i] = "UNSELECTED_ORDERED_BEFORE_SELECTED"
       /\ sampleCallNodes[j] # Null
       /\ sampleCallNodes[j] > args[2]
       /\ callNodeTable.depth[sampleCallNodes[j]] = callNodeTable.depth[args[2]]
       /\ returned[1][j] = "UNSELECTED_ORDERED_BEFORE_SELECTED"

\* ------------------------------ claims on the best ancestor call node
\* The run of the clicked category above the clicked call node: the call
\* nodes from the clicked one up that have the category, without a gap.
SameCategoryRun(clickedCallNode, clickedCategory) ==
  {n \in SelfAndAncestors(clickedCallNode) :
     \A m \in PathUpTo(clickedCallNode, n) : callNodeTable.category[m] = clickedCategory}

RECURSIVE SumOfEntries(_)
SumOfEntries(breakdown) ==
  IF DOMAIN breakdown = {} THEN 0
  ELSE LET implementation == CHOOSE k \in DOMAIN breakdown : TRUE
       IN breakdown[implementation]
            + SumOfEntries([k \in DOMAIN breakdown \ {implementation} |-> breakdown[k]])

\* The call node of the root-most stack of the chain of sample i.
RootCallNode(i) ==
  stackIndexToCallNodeIndex[CHOOSE s \in StackChain(samples.stack[i]) : stackTable.prefix[s] = Null]

\* The samples that contribute to the four timings: to the self times by
\* their own call node, or by their root call node on an inverted tree.
SelfCallNode(i) ==
  IF isInvertedTree THEN RootCallNode(i) ELSE stackIndexToCallNodeIndex[samples.stack[i]]
PathSelfSamples == {i \in SamplesWithStack : SelfCallNode(i) = needleNodeIndex}
FuncSelfSamples == {i \in SamplesWithStack : callNodeTable.func[SelfCallNode(i)] = NeedleFunc}
PathTotalSamples == {i \in SamplesWithStack : needleNodeIndex \in CallNodesOnChain(i)}
FuncTotalSamples ==
  {i \in SamplesWithStack : \E c \in CallNodesOnChain(i) : callNodeTable.func[c] = NeedleFunc}

\* A timing has a breakdown by implementation exactly when a sample of the
\* set contributed to it, and then the entries of the breakdown sum to the value.
BrokenDown(timing, contributors) ==
  /\ timing.breakdownByImplementation = Absent <=> contributors = {}
  /\ timing.breakdownByImplementation # Absent =>
       SumOfEntries(ValueOf(timing.breakdownByImplementation)) = timing.value

\* C26: after getTimingsForCallNodeIndex each of the four timings, on a
\* non-inverted and on an inverted tree, has a breakdown by implementation
\* whose entries sum to its value when a sample contributed to it, and a null
\* breakdown only when no sample did.
C26_EveryTimingBrokenDown ==
  (pc = "done" /\ needleNodeIndex # Null) =>
    /\ BrokenDown(timings.forPath.selfTime, PathSelfSamples)
    /\ BrokenDown(timings.forPath.totalTime, PathTotalSamples)
    /\ BrokenDown(timings.forFunc.selfTime, FuncSelfSamples)
    /\ BrokenDown(timings.forFunc.totalTime, FuncTotalSamples)

\* C26, but for the self time of the path on an inverted tree, which has its
\* value and no breakdown, whatever contributed.
C26_TimingsBrokenDownButInvertedPathSelf ==
  (pc = "done" /\ needleNodeIndex # Null) =>
    /\ IF isInvertedTree
         THEN /\ timings.forPath.selfTime.breakdownByImplementation = Absent
              /\ timings.forPath.selfTime.breakdownByCategory = Absent
              /\ timings.forPath.selfTime.value = SumOfWeights(PathSelfSamples)
         ELSE BrokenDown(timings.forPath.selfTime, PathSelfSamples)
    /\ BrokenDown(timings.forPath.totalTime, PathTotalSamples)
    /\ BrokenDown(timings.forFunc.selfTime, FuncSelfSamples)
    /\ BrokenDown(timings.forFunc.totalTime, FuncTotalSamples)

\* On an inverted tree samples contributed to the self time of the path, and
\* the total time of the path is broken down into two implementations.
C26_Witness ==
  /\ pc = "done"
  /\ needleNodeIndex # Null
  /\ isInvertedTree
  /\ Cardinality(PathSelfSamples) >= 2
  /\ timings.forPath.selfTime.value # 0
  /\ timings.forPath.totalTime.breakdownByImplementation # Absent
  /\ Cardinality(DOMAIN ValueOf(timings.forPath.totalTime.breakdownByImplementation)) = 2

\* C27: getTimingsForCallNodeIndex gives the same total time of the path and
\* of the function, by value and by implementation, and the same rootTime on
\* the inverted and on the non-inverted tree; on the inverted tree the self
\* time of the path is the weight of the samples whose root-most stack maps
\* to the needle, and the self time of the function that of the samples
\* whose root-most stack has the needle's function.
C27_OrientationChangesSelfTimeOnly ==
  (pc = "done" /\ needleNodeIndex # Null) =>
    LET other == getTimingsForCallNodeIndex(needleNodeIndex, callNodeTable,
                                            stackIndexToCallNodeIndex, ~isInvertedTree,
                                            stackTable, samples)
    IN /\ timings.rootTime = other.rootTime
       /\ timings.forPath.totalTime.value = other.forPath.totalTime.value
       /\ timings.forPath.totalTime.breakdownByImplementation
            = other.forPath.totalTime.breakdownByImplementation
       /\ timings.forFunc.totalTime.value = other.forFunc.totalTime.value
       /\ timings.forFunc.totalTime.breakdownByImplementation
            = other.forFunc.totalTime.breakdownByImplementation
       /\ isInvertedTree =>
            /\ timings.forPath.selfTime.value =
                 SumOfWeights({i \in SamplesWithStack : RootCallNode(i) = needleNodeIndex})
            /\ timings.forFunc.selfTime.value =
                 SumOfWeights({i \in SamplesWithStack :
                                 callNodeTable.func[RootCallNode(i)] = NeedleFunc})

\* On an inverted tree the needle's function is below the root of a sample
\* and not at it: the sample is in the total time of the function and not in
\* its self time; another sample has the needle as its root.
C27_Witness ==
  /\ pc = "done"
  /\ needleNodeIndex # Null
  /\ isInvertedTree
  /\ samples.weight # Absent
  /\ \E i \in FuncTotalSamples : callNodeTable.func[RootCallNode(i)] # NeedleFunc
  /\ \E i \in SamplesWithStack : RootCallNode(i) = needleNodeIndex
  /\ timings.forFunc.totalTime.value # timings.forFunc.selfTime.value
  /\ timings.forPath.selfTime.value # 0

\* --------------------- claims on the stack table of the implementation filter
\* The old stacks that _filterThreadByFunc converted to a new stack by their
\* own frame: oldStackToNewStack after the samples and the allocation tables
\* were converted.
CollapsedInto(thread, implementation, defCategory, newStack) ==
  LET st == thread.stackTable
      s == filterConvertStacks(NewFilter, st, implementation, defCategory,
                               thread.samples.stack, 0, EmptyCol)
      js == filterConvertAllocations(s.c, st, implementation, defCategory, thread.jsAllocations)
      native == filterConvertAllocations(js.c, st, implementation, defCategory,
                                         thread.nativeAllocations)
  IN {o \in DOMAIN native.c.oldStackToNewStack : native.c.oldStackToNewStack[o] = newStack}

\* C28: the stack table filterThreadByImplementation builds has prefix, frame,
\* category and subcategory columns of length entries, every prefix is null or
\* a smaller index, and the subcategory of a new stack is 0 when the old stacks
\* that collapsed into it have one category and different subcategories, and
\* their subcategory when they agree; no other entry is set.
C28_FilteredStackTableWellFormed ==
  (pc = "filterThreadByImplementation" /\ args[1] \in {"cpp", "js"}) =>
    LET new == returned[1].stackTable
        newStacks == 0 .. new.length - 1
    IN /\ DOMAIN new.prefix = newStacks
       /\ DOMAIN new.frame = newStacks
       /\ DOMAIN new.category = newStacks
       /\ DOMAIN new.subcategory = newStacks
       /\ \A n \in newStacks : new.prefix[n] = Null \/ new.prefix[n] \in 0 .. n - 1
       /\ \A n \in newStacks :
            LET old == CollapsedInto(Thread, args[1], defaultCategory, n)
                oldCategories == {stackTable.category[o] : o \in old}
                oldSubcategories == {stackTable.subcategory[o] : o \in old}
            IN Cardinality(oldCategories) = 1 =>
                 new.subcategory[n] = IF Cardinality(oldSubcategories) = 1
                                        THEN CHOOSE k \in oldSubcategories : TRUE ELSE 0

\* --------------------------------------------------- the order of threads
\* The comparator of defaultThreadOrder, for the names of the threads.
threadComparator(names, a, b) ==
  LET nameA == names[a]
      nameB == names[b]
  IN IF nameA = nameB THEN a - b
     ELSE IF nameA = "Compositor" THEN 1
     ELSE IF nameB = "Compositor" THEN -1
     ELSE IF nameA = "Renderer" THEN 1
     ELSE IF nameB = "Renderer" THEN -1
     ELSE a - b

\* Array.prototype.sort with the comparator, as an insertion sort: the sorted
\* list with x put after the last entry that is not after it.
RECURSIVE insertSorted(_, _, _)
insertSorted(names, sorted, x) ==
  IF sorted = <<>> THEN <<x>>
  ELSE IF threadComparator(names, x, sorted[Len(sorted)]) >= 0 THEN Append(sorted, x)
  ELSE Append(insertSorted(names, SubSeq(sorted, 1, Len(sorted) - 1), x), sorted[Len(sorted)])

RECURSIVE sortThreads(_, _, _)
sortThreads(names, sorted, i) ==
  IF i \notin DOMAIN names THEN sorted
  ELSE sortThreads(names, insertSorted(names, sorted, i), i + 1)

\* defaultThreadOrder: the thread indexes 0, 1, ... sorted with the comparator.
\* names is the list of the names of the threads, from thread 0 on.
defaultThreadOrder(names) ==
  sortThreads([i \in 0 .. Len(names) - 1 |-> names[i + 1]], <<>>, 0)

\* --------------------------------- specification: the order of threads
ThreadNames == {"GeckoMain", "Compositor", "Renderer"}

InitThreads ==
  /\ SyncIdle
  /\ pc = "threads"
  /\ stackTable \in {st \in StackTables(1, {<<0, 1>>}) : st.frame[0] = 0}
  /\ defaultCategory = 0
  /\ BuilderIdle
  /\ PathsIdle
  /\ TimingsIdle
  /\ InvertIdle
  /\ samples = NoSamples
  /\ NoAllocations
  /\ returned = <<>>
  /\ \E n \in 0 .. MaxThreads : \E names \in [1 .. n -> ThreadNames] : args = <<names>>

DefaultThreadOrder ==
  /\ pc = "threads"
  /\ pc' = "defaultThreadOrder"
  /\ returned' = <<defaultThreadOrder(args[1])>>
  /\ UNCHANGED <<args, inputVars, syncVars, builderVars, pathVars, timingVars, invertVars>>

NextThreads == DefaultThreadOrder

SpecThreads == InitThreads /\ [][NextThreads]_vars

\* ---------------------------------------- claims on the order of threads
\* The place of a thread in the returned order.
PlaceOf(order, thread) == CHOOSE k \in 1 .. Len(order) : order[k] = thread

\* C29: defaultThreadOrder returns a permutation of the thread indexes; the
\* threads named Compositor or Renderer are after all the others, a
\* Compositor thread is before a Renderer thread, the other threads and the
\* threads of one name keep their order; the comparator gives opposite
\* numbers for exchanged arguments, and 0 only for equal ones.
C29_DefaultThreadOrder ==
  pc = "defaultThreadOrder" =>
    LET names == [i \in 0 .. Len(args[1]) - 1 |-> args[1][i + 1]]
        threads == DOMAIN names
        order == returned[1]
        last == {"Compositor", "Renderer"}
    IN /\ Len(order) = Cardinality(threads)
       /\ {order[k] : k \in 1 .. Len(order)} = threads
       /\ \A a, b \in threads :
            /\ (names[a] \notin last /\ names[b] \in last)
                 => PlaceOf(order, a) < PlaceOf(order, b)
            /\ (names[a] = "Compositor" /\ names[b] = "Renderer")
                 => PlaceOf(order, a) < PlaceOf(order, b)
            /\ (a < b /\ (names[a] = names[b] \/ (names[a] \notin last /\ names[b] \notin last)))
                 => PlaceOf(order, a) < PlaceOf(order, b)
            /\ threadComparator(names, a, b) = -threadComparator(names, b, a)
            /\ threadComparator(names, a, b) = 0 <=> a = b

\* ------------------------------------------------ the l10n sync script
\* bin/l10n-sync.js.  A file path is the sequence of its components, and
\* <<>> is the empty line of the output of git log.  error is Absent for
\* null, Present(e) for the error e.
totalTryCount == 3

\* /^locales[\\/](?!en-US[\\/]).*$/ matched from the start of the path.
vendoredLocalesPath(file) ==
  /\ Len(file) >= 2
  /\ file[1] = "locales"
  /\ ~(Len(file) >= 3 /\ file[2] = "en-US")

\* /^(locales[\\/]en-US[\\/]|(?!locales[\\/])).*$/ matched from the start.
nonVendoredLocalesPath(file) ==
  \/ Len(file) >= 3 /\ file[1] = "locales" /\ file[2] = "en-US"
  \/ ~(Len(file) >= 2 /\ file[1] = "locales")

Files ==
  {<<>>, <<"locales", "fr", "app.ftl">>, <<"locales", "en-US", "app.ftl">>, <<"src", "index.js">>}

\* The lines git log may print.
ChangedFiles == UNION {[1 .. n -> Files] : n \in 1 .. MaxChangedFiles}

\* file.length: the characters of the components and of the separators.
RECURSIVE pathLength(_)
pathLength(file) ==
  IF file = <<>> THEN 0
  ELSE IF Len(file) = 1 THEN Len(file[1])
  ELSE Len(file[1]) + 1 + pathLength(Tail(file))

\* matchRegexp.test(file).  Both regular expressions have the g flag and
\* start with ^ : the search starts at index, the lastIndex of the regular
\* expression, so that it finds a match at index 0 only; a match leaves
\* lastIndex at its end, the end of the path, and a failure leaves 0.
test(matches, index, file) ==
  IF index = 0 /\ matches
    THEN [result |-> TRUE, lastIndex |-> pathLength(file)]
    ELSE [result |-> FALSE, lastIndex |-> 0]

\* The loop of checkAllowedPaths over changedFiles, from line i on: the file
\* it throws for, if any, and the lastIndex it leaves.
RECURSIVE checkFiles(_, _, _, _)
checkFiles(matchRegexp, changedFiles, i, index) ==
  IF i > Len(changedFiles) THEN [threw |-> Absent, lastIndex |-> index]
  ELSE IF pathLength(changedFiles[i]) = 0 THEN checkFiles(matchRegexp, changedFiles, i + 1, index)
  ELSE LET tested == test(matchRegexp[changedFiles[i]], index, changedFiles[i])
       IN IF ~tested.result
            THEN [threw |-> Present(changedFiles[i]), lastIndex |-> tested.lastIndex]
            ELSE checkFiles(matchRegexp, changedFiles, i + 1, tested.lastIndex)

\* The errors: of a command that failed, and of checkAllowedPaths.
ExecError(command) == [message |-> "Command failed", command |-> command, file |-> <<>>]
NotAllowed(compareBranch, file) == [message |-> "not allowed", command |-> compareBranch, file |-> file]

\* The end of an attempt that assigned e to error: tryCount++, the test of
\* the do ... while, and after the loop the throw or the return.
endOfTryOnceMore(e, count) ==
  [error |-> e,
   tryCount |-> count + 1,
   pc |-> IF e # Absent /\ count + 1 <= totalTryCount THEN "tryToSync"
          ELSE IF e # Absent THEN "threw" ELSE "returned"]

endOfTry(e, count) ==
  [error |-> e,
   tryCount |-> count + 1,
   pc |-> IF e # Absent /\ count + 1 < totalTryCount THEN "tryToSync"
          ELSE IF e # Absent THEN "threw" ELSE "returned"]

EndTry(e) ==
  /\ error' = endOfTry(e, tryCount).error
  /\ tryCount' = endOfTry(e, tryCount).tryCount
  /\ pc' = endOfTry(e, tryCount).pc
  /\ caught' = Append(caught, e)

\* await logAndExec(...) in the try block: the command is logged and run;
\* it succeeds, or it fails and the catch block ends the attempt.
LogAndExec(command, next) ==
  /\ execLog' = Append(execLog, [tryCount |-> tryCount, command |-> command])
  /\ \/ pc' = next /\ UNCHANGED <<tryCount, error, caught>>
     \/ EndTry(Present(ExecError(command)))

\* --------------------------------- specification: the l10n sync script
InitSync ==
  /\ pc = "tryToSync"
  /\ stackTable \in {st \in StackTables(1, {<<0, 1>>}) : st.frame[0] = 0}
  /\ defaultCategory = 0
  /\ BuilderIdle
  /\ PathsIdle
  /\ TimingsIdle
  /\ InvertIdle
  /\ samples = NoSamples
  /\ NoAllocations
  /\ args = <<"upstream">>
  /\ returned = <<>>
  /\ SKIP_PROMPTS \in BOOLEAN
  /\ tryCount = 0
  /\ error = Absent
  /\ lastIndex = [vendoredLocalesPath |-> 0, nonVendoredLocalesPath |-> 0]
  /\ execLog = <<>>
  /\ caught = <<>>

SyncRest == <<SKIP_PROMPTS, inputVars, builderVars, pathVars, timingVars, invertVars, callVars>>

Fetch ==
  /\ pc = "tryToSync"
  /\ LogAndExec("fetch", "checkL10n")
  /\ UNCHANGED <<lastIndex, SyncRest>>

\* checkAllowedPaths of l10n against main, with vendoredLocalesPath.
CheckL10nPaths ==
  /\ pc = "checkL10n"
  /\ execLog' = Append(execLog, [tryCount |-> tryCount, command |-> "log main..l10n"])
  /\ \/ EndTry(Present(ExecError("log main..l10n"))) /\ UNCHANGED lastIndex
     \/ \E changedFiles \in ChangedFiles :
          LET checked == checkFiles([file \in Files |-> vendoredLocalesPath(file)], changedFiles, 1, lastIndex.vendoredLocalesPath)
          IN /\ lastIndex' = [lastIndex EXCEPT !.vendoredLocalesPath = checked.lastIndex]
             /\ IF checked.threw = Absent
                  THEN pc' = "checkMain" /\ UNCHANGED <<tryCount, error, caught>>
                  ELSE EndTry(Present(NotAllowed("l10n", ValueOf(checked.threw))))
  /\ UNCHANGED SyncRest

\* checkAllowedPaths of main against l10n, with nonVendoredLocalesPath.
CheckMainPaths ==
  /\ pc = "checkMain"
  /\ execLog' = Append(execLog, [tryCount |-> tryCount, command |-> "log l10n..main"])
  /\ \/ EndTry(Present(ExecError("log l10n..main"))) /\ UNCHANGED lastIndex
     \/ \E changedFiles \in ChangedFiles :
          LET checked == checkFiles([file \in Files |-> nonVendoredLocalesPath(file)], changedFiles, 1, lastIndex.nonVendoredLocalesPath)
          IN /\ lastIndex' = [lastIndex EXCEPT !.nonVendoredLocalesPath = checked.lastIndex]
             /\ IF checked.threw = Absent
                  THEN pc' = "checkout" /\ UNCHANGED <<tryCount, error, caught>>
                  ELSE EndTry(Present(NotAllowed("main", ValueOf(checked.threw))))
  /\ UNCHANGED SyncRest

Checkout ==
  /\ pc = "checkout"
  /\ LogAndExec("checkout", "merge")
  /\ UNCHANGED <<lastIndex, SyncRest>>

Merge ==
  /\ pc = "merge"
  /\ LogAndExec("merge", "pause")
  /\ UNCHANGED <<lastIndex, SyncRest>>

\* pauseWithMessageIfNecessary: returns at once with SKIP_PROMPTS, and when
\* ENTER is pressed without.
PauseWithMessageIfNecessary ==
  /\ pc = "pause"
  /\ pc' = "push"
  /\ UNCHANGED <<tryCount, error, lastIndex, execLog, caught, SyncRest>>

\* The push; after it error = null ends the attempt.
Push ==
  /\ pc = "push"
  /\ execLog' = Append(execLog, [tryCount |-> tryCount, command |-> "push"])
  /\ \/ EndTry(Absent)
     \/ EndTry(Present(ExecError("push")))
  /\ UNCHANGED <<lastIndex, SyncRest>>

NextSync ==
  \/ Fetch
  \/ CheckL10nPaths
  \/ CheckMainPaths
  \/ Checkout
  \/ Merge
  \/ PauseWithMessageIfNecessary
  \/ Push

\* Every command that was started ends, and ENTER is pressed at the prompt.
SpecSync == InitSync /\ [][NextSync]_vars /\ WF_vars(NextSync)

\* ---------------------------------------- claims on the l10n sync script
\* The commands of one attempt, in the order they were run.
RECURSIVE CommandsOf(_, _)
CommandsOf(log, attempt) ==
  IF log = <<>> THEN <<>>
  ELSE IF Head(log).tryCount = attempt THEN <<Head(log).command>> \o CommandsOf(Tail(log), attempt)
  ELSE CommandsOf(Tail(log), attempt)

AttemptCommands == <<"fetch", "log main..l10n", "log l10n..main", "checkout", "merge", "push">>

SyncFinished == pc \in {"returned", "threw"}

SyncSafety ==
  /\ tryCount <= 3
  /\ Len(caught) = tryCount
  /\ \A entry \in {execLog[k] : k \in 1 .. Len(execLog)} : entry.tryCount \in 0 .. 2
  /\ \A attempt \in 0 .. 2 :
       LET commands == CommandsOf(execLog, attempt)
       IN /\ commands = SubSeq(AttemptCommands, 1, Len(commands))
          /\ attempt < tryCount => commands # <<>>
          /\ (attempt = tryCount /\ pc # "tryToSync" /\ ~SyncFinished) => commands # <<>>
          /\ (attempt > tryCount \/ (attempt = tryCount /\ SyncFinished)) => commands = <<>>
          /\ (attempt < tryCount /\ caught[attempt + 1] # Absent
               /\ ValueOf(caught[attempt + 1]).message = "not allowed")
               => \A k \in 1 .. Len(commands) : commands[k] # "push"
  /\ \A attempt \in 1 .. Len(caught) : caught[attempt] = Absent => attempt = Len(caught) /\ pc = "returned"
  /\ pc = "threw" <=> (SyncFinished /\ tryCount = 3 /\ \A attempt \in 1 .. 3 : caught[attempt] # Absent)
  /\ pc = "threw" => error = caught[3]
  /\ pc = "returned" => error = Absent /\ caught[Len(caught)] = Absent

====
